---------------------------- MODULE Spec2Model ----------------------------
(***************************************************************************)
(* A model of the match-outcome prediction core of footballai:             *)
(*   FeatureEngineering (src/src/services/BettingAnalyzer.js, 648-1200),   *)
(*   MLModels           (src/src/services/MLModels.js),                    *)
(*   ModelTrainer       (src/unnamed/part_012, 9-467),                     *)
(*   the /ai/train route (src/unnamed/part_007, 564-677).                  *)
(*                                                                         *)
(* JavaScript values are modelled as follows: an object is a function from *)
(* its keys (strings) to values, a missing key or `undefined` is the value *)
(* Undefined, `null` is Null, an array is a sequence, a quotient a / b is  *)
(* the reduced fraction Frac(a, b), and a thrown exception is a result     *)
(* record whose status is "error".                                         *)
(***************************************************************************)
EXTENDS Integers, Sequences, FiniteSets, TLC

VARIABLES
    \* ---- the Match table of the data store, and the wall clock
    matches,        \* id -> row of the Match table
    now,            \* Date.now(), in milliseconds
    \* ---- FeatureEngineering instance
    featureCache,   \* this.featureCache: cache key -> entry, or NoEntry
    featResult,     \* what the last generateMatchFeatures call returned or threw
    \* ---- MLModels: the model directory and the calls made on a model
    files,          \* ML_MODEL_PATH: file name -> the chunks written to it
    forest,         \* the ensemble object at hand
    trainOut,       \* what the last trainRandomForest call returned or threw
    loaded,         \* what the last loadModel call returned or threw
    predOut,        \* per model source, the last predictRandomForest call
    saving,         \* per caller of saveModel: its fs.writeFile in progress
    loading,        \* the fs.readFile of a loadModel call in progress
    \* ---- ModelTrainer instance and the /ai/train requests it serves
    dbRows,         \* how many rows getTrainingData returns
    trainingHistory,\* this.trainingHistory
    bestModels,     \* this.bestModels: model type -> model
    runs,           \* per request: the trainModels invocation and its response
    listing,        \* what the last listModels call returned
    started,        \* history: how many /ai/train requests were accepted
    rfTrained,      \* history: a random_forest training returned success and
                    \* random_forest_best was not deleted since
    \* ---- AIPredictor: the Prediction table and the prediction columns of Match
    predictionRecords, \* <<matchId, modelName>> -> row of the Prediction table
    matchPrediction,\* match id -> the prediction columns of its Match row
    predictResult,  \* what the last predictMatch call returned or threw
    called,         \* the call of a function under study: its inputs and what it returned
    \* ---- FootballDataAPI instance
    api             \* requestCount, lastResetTime, the requests in flight and (history) the times requests were sent

featVars == <<matches, featureCache, featResult>>

mlVars == <<files, forest, trainOut, loaded, predOut>>

trainVars == <<dbRows, trainingHistory, bestModels, runs, listing, started, rfTrained>>

storeVars == <<saving, loading>>

predictVars == <<predictionRecords, matchPrediction, predictResult>>

callVars == <<called>>

apiVars == <<api>>

vars == <<matches, now, featureCache, featResult, files, forest, trainOut, loaded,
          predOut, saving, loading, dbRows, trainingHistory, bestModels, runs, listing, started,
          rfTrained, predictionRecords, matchPrediction, predictResult, called, api>>

Undefined == "undefined"
Null == "null"
\* `null` in a score column (scores are never negative)
NullScore == 0 - 1

(***************************************************************************)
(* Arithmetic helpers: sums over sequences and reduced fractions.          *)
(***************************************************************************)
RECURSIVE SumSeq(_)
SumSeq(s) == IF s = <<>> THEN 0 ELSE Head(s) + SumSeq(Tail(s))

Abs(n) == IF n < 0 THEN -n ELSE n

RECURSIVE GCD(_, _)
GCD(a, b) == IF b = 0 THEN a ELSE GCD(b, a % b)

\* The JavaScript number n / d (d > 0), kept exact as a reduced fraction.
Frac(n, d) ==
    LET g == GCD(Abs(n), d)
    IN  [num |-> n \div g, den |-> d \div g]

FracZero == Frac(0, 1)

\* arr.filter(p).length for a predicate given as the set of indices it keeps
Count(s, Keep(_)) == Cardinality({i \in DOMAIN s : Keep(s[i])})

Range(s) == {s[i] : i \in DOMAIN s}

\* arr.slice(from, to): the elements at JavaScript indices from .. to-1
Slice(s, from, to) ==
    LET hi == IF to < Len(s) THEN to ELSE Len(s)
    IN  IF from >= hi THEN <<>> ELSE SubSeq(s, from + 1, hi)

(***************************************************************************)
(* The data store.  Timestamps (utcDate) are hours since 1 August 2024     *)
(* 00:00, the start of season 2024.                                        *)
(***************************************************************************)
HoursPerDay == 24

Row(id, home, away, date, status, hs, as, winner) ==
    [id |-> id, homeTeamId |-> home, awayTeamId |-> away, utcDate |-> date,
     season |-> 2024, status |-> status, homeTeamScore |-> hs,
     awayTeamScore |-> as, winner |-> winner, competitionId |-> 2021,
     matchday |-> id, competitionType |-> "LEAGUE", competitionPlan |-> "TIER_ONE",
     venueCapacity |-> 0]

\* The rows the model starts from: two finished matches and one scheduled.
MatchTable ==
    (1 :> Row(1, 1, 2, 10, "FINISHED", 2, 0, "HOME_TEAM")) @@
    (2 :> Row(2, 2, 1, 34, "FINISHED", 1, 1, "DRAW")) @@
    (3 :> Row(3, 1, 2, 58, "SCHEDULED", NullScore, NullScore, Null))

MatchIds == DOMAIN MatchTable

\* An id no row has (generateMatchFeatures on it throws).
UnknownMatchId == Cardinality(MatchIds) + 5

\* Match.findAll({ where, order: [['utcDate','DESC']] }): the ids of `ids`
\* as a sequence, latest first (the table holds no two equal dates).
RECURSIVE OrderDesc(_, _)
OrderDesc(tbl, ids) ==
    IF ids = {} THEN <<>>
    ELSE LET top == CHOOSE i \in ids : \A j \in ids : tbl[j].utcDate <= tbl[i].utcDate
         IN  <<tbl[top]>> \o OrderDesc(tbl, ids \ {top})

\* ... limit: n
Limit(s, n) == IF Len(s) <= n THEN s ELSE SubSeq(s, 1, n)


(***************************************************************************)
(* FeatureEngineering: statistics of a list of matches for one team.       *)
(***************************************************************************)
TeamScore(m, teamId) ==
    IF m.homeTeamId = teamId THEN m.homeTeamScore ELSE m.awayTeamScore

OpponentScore(m, teamId) ==
    IF m.homeTeamId = teamId THEN m.awayTeamScore ELSE m.homeTeamScore

Scored(m, teamId) ==
    TeamScore(m, teamId) # NullScore /\ OpponentScore(m, teamId) # NullScore

\* JavaScript a > b on scores: null converts to 0
Num(v) == IF v = NullScore THEN 0 ELSE v

calculateMatchStats(ms, teamId) ==
    LET matchesPlayed == Len(ms)
        Won(m)   == Scored(m, teamId) /\ TeamScore(m, teamId) > OpponentScore(m, teamId)
        Drew(m)  == Scored(m, teamId) /\ TeamScore(m, teamId) = OpponentScore(m, teamId)
        Lost(m)  == Scored(m, teamId) /\ TeamScore(m, teamId) < OpponentScore(m, teamId)
        wins     == Count(ms, Won)
        draws    == Count(ms, Drew)
        losses   == Count(ms, Lost)
        goalsFor == SumSeq([i \in DOMAIN ms |->
                        IF Scored(ms[i], teamId) THEN TeamScore(ms[i], teamId) ELSE 0])
        goalsAgainst == SumSeq([i \in DOMAIN ms |->
                        IF Scored(ms[i], teamId) THEN OpponentScore(ms[i], teamId) ELSE 0])
        Rate(n)  == IF matchesPlayed > 0 THEN Frac(n, matchesPlayed) ELSE FracZero
    IN  [matchesPlayed |-> matchesPlayed, wins |-> wins, draws |-> draws,
         losses |-> losses, goalsFor |-> goalsFor, goalsAgainst |-> goalsAgainst,
         goalDifference |-> goalsFor - goalsAgainst,
         points |-> wins * 3 + draws,
         winRate |-> Rate(wins),
         avgGoalsFor |-> Rate(goalsFor),
         avgGoalsAgainst |-> Rate(goalsAgainst)]

calculatePoints(ms, teamId) ==
    SumSeq([i \in DOMAIN ms |->
        IF ~Scored(ms[i], teamId) THEN 0
        ELSE IF TeamScore(ms[i], teamId) > OpponentScore(ms[i], teamId) THEN 3
        ELSE IF TeamScore(ms[i], teamId) = OpponentScore(ms[i], teamId) THEN 1
        ELSE 0])

calculateFormMomentum(ms, teamId) ==
    IF Len(ms) < 3 THEN 0
    ELSE calculatePoints(Slice(ms, 0, 3), teamId) - calculatePoints(Slice(ms, 3, 6), teamId)

\* 'W' / 'D' / 'L' of one match seen from teamId (null scores compare as 0,
\* and null === null is a draw)
FormLetter(m, teamId) ==
    IF Num(TeamScore(m, teamId)) > Num(OpponentScore(m, teamId)) THEN "W"
    ELSE IF TeamScore(m, teamId) = OpponentScore(m, teamId) THEN "D"
    ELSE "L"

RECURSIVE getFormString(_, _)
getFormString(ms, teamId) ==
    IF ms = <<>> THEN ""
    ELSE FormLetter(Head(ms), teamId) \o getFormString(Tail(ms), teamId)

countHomeMatches(ms, teamId) ==
    LET IsHome(m) == m.homeTeamId = teamId IN Count(ms, IsHome)

countAwayMatches(ms, teamId) ==
    LET IsAway(m) == m.awayTeamId = teamId IN Count(ms, IsAway)

calculateHomeWinRate(ms, teamId) ==
    LET IsHome(m)  == m.homeTeamId = teamId
        HomeWin(m) == IsHome(m) /\ Num(m.homeTeamScore) > Num(m.awayTeamScore)
    IN  IF Count(ms, IsHome) = 0 THEN FracZero
        ELSE Frac(Count(ms, HomeWin), Count(ms, IsHome))

calculateAwayWinRate(ms, teamId) ==
    LET IsAway(m)  == m.awayTeamId = teamId
        AwayWin(m) == IsAway(m) /\ Num(m.awayTeamScore) > Num(m.homeTeamScore)
    IN  IF Count(ms, IsAway) = 0 THEN FracZero
        ELSE Frac(Count(ms, AwayWin), Count(ms, IsAway))

Prefix(isHome) == IF isHome THEN "home" ELSE "away"

K(prefix, name) == prefix \o "_" \o name

\* the object literal of lines 798-840, given the two statistics
TeamFeatureMap(p, recentStats, seasonStats, recentMatches, seasonMatches, teamId) ==
    (K(p, "recent_wins") :> recentStats.wins) @@
    (K(p, "recent_draws") :> recentStats.draws) @@
    (K(p, "recent_losses") :> recentStats.losses) @@
    (K(p, "recent_goals_for") :> recentStats.goalsFor) @@
    (K(p, "recent_goals_against") :> recentStats.goalsAgainst) @@
    (K(p, "recent_goal_difference") :> recentStats.goalDifference) @@
    (K(p, "recent_points") :> recentStats.points) @@
    (K(p, "recent_win_rate") :> recentStats.winRate) @@
    (K(p, "recent_avg_goals_for") :> recentStats.avgGoalsFor) @@
    (K(p, "recent_avg_goals_against") :> recentStats.avgGoalsAgainst) @@
    (K(p, "season_matches") :> seasonStats.matchesPlayed) @@
    (K(p, "season_wins") :> seasonStats.wins) @@
    (K(p, "season_draws") :> seasonStats.draws) @@
    (K(p, "season_losses") :> seasonStats.losses) @@
    (K(p, "season_goals_for") :> seasonStats.goalsFor) @@
    (K(p, "season_goals_against") :> seasonStats.goalsAgainst) @@
    (K(p, "season_goal_difference") :> seasonStats.goalDifference) @@
    (K(p, "season_points") :> seasonStats.points) @@
    (K(p, "season_win_rate") :> seasonStats.winRate) @@
    (K(p, "season_avg_goals_for") :> seasonStats.avgGoalsFor) @@
    (K(p, "season_avg_goals_against") :> seasonStats.avgGoalsAgainst) @@
    (K(p, "form_momentum") :> calculateFormMomentum(recentMatches, teamId)) @@
    (K(p, "recent_form_string") :> getFormString(recentMatches, teamId)) @@
    (K(p, "home_matches") :> countHomeMatches(seasonMatches, teamId)) @@
    (K(p, "away_matches") :> countAwayMatches(seasonMatches, teamId)) @@
    (K(p, "home_win_rate") :> calculateHomeWinRate(seasonMatches, teamId)) @@
    (K(p, "away_win_rate") :> calculateAwayWinRate(seasonMatches, teamId))

calculateTeamFeatures(recentMatches, seasonMatches, teamId, isHome) ==
    TeamFeatureMap(Prefix(isHome), calculateMatchStats(recentMatches, teamId),
                   calculateMatchStats(seasonMatches, teamId), recentMatches,
                   seasonMatches, teamId)

getDefaultTeamFeatures(isHome) ==
    LET p == Prefix(isHome)
    IN  (K(p, "recent_wins") :> 0) @@ (K(p, "recent_draws") :> 0) @@
        (K(p, "recent_losses") :> 0) @@ (K(p, "recent_goals_for") :> 0) @@
        (K(p, "recent_goals_against") :> 0) @@
        (K(p, "recent_goal_difference") :> 0) @@ (K(p, "recent_points") :> 0) @@
        (K(p, "recent_win_rate") :> FracZero) @@ (K(p, "recent_avg_goals_for") :> FracZero) @@
        (K(p, "recent_avg_goals_against") :> FracZero) @@
        (K(p, "season_matches") :> 0) @@ (K(p, "season_wins") :> 0) @@
        (K(p, "season_draws") :> 0) @@ (K(p, "season_losses") :> 0) @@
        (K(p, "season_goals_for") :> 0) @@ (K(p, "season_goals_against") :> 0) @@
        (K(p, "season_goal_difference") :> 0) @@ (K(p, "season_points") :> 0) @@
        (K(p, "season_win_rate") :> FracZero) @@ (K(p, "season_avg_goals_for") :> FracZero) @@
        (K(p, "season_avg_goals_against") :> FracZero) @@
        (K(p, "form_momentum") :> 0) @@ (K(p, "recent_form_string") :> "") @@
        (K(p, "home_matches") :> 0) @@ (K(p, "away_matches") :> 0) @@
        (K(p, "home_win_rate") :> FracZero) @@ (K(p, "away_win_rate") :> FracZero)

(***************************************************************************)
(* FeatureEngineering: the cached team-history query, head-to-head and the *)
(* assembled feature vector.  A cache entry and a result carry `sources`,  *)
(* a history field the program does not have: the ids of the Match rows    *)
(* the features were computed from.                                        *)
(***************************************************************************)
cacheTimeout == 30 * 60 * 1000

RecentLimit == 10

CacheKey(teamId, season, isHome) == <<"team_features", teamId, season, isHome>>

\* where: (homeTeamId = teamId OR awayTeamId = teamId), status FINISHED,
\*        utcDate < matchDate, season = season
TeamMatchesBefore(tbl, teamId, matchDate, season) ==
    {i \in DOMAIN tbl :
        /\ tbl[i].homeTeamId = teamId \/ tbl[i].awayTeamId = teamId
        /\ tbl[i].status = "FINISHED"
        /\ tbl[i].utcDate < matchDate
        /\ tbl[i].season = season}

\* lines 775-783: the computed features are cached and returned
\* (renewed is a second history field: the entry took the place of another)
Queried(cache, cacheKey, clock, ids, features) ==
    [features |-> features, sources |-> ids,
     cache    |-> (cacheKey :> [features |-> features, timestamp |-> clock,
                                sources |-> ids, renewed |-> cacheKey \in DOMAIN cache])
                    @@ cache]

\* lines 746-775: the two queries and calculateTeamFeatures on their rows
QueryAndCalculate(cache, cacheKey, clock, tbl, ids, teamId, isHome) ==
    Queried(cache, cacheKey, clock, ids,
            calculateTeamFeatures(Limit(OrderDesc(tbl, ids), RecentLimit),
                                  OrderDesc(tbl, ids), teamId, isHome))

\* the entry still served at the very age of the timeout
getTeamHistoricalFeaturesAtTimeout(cache, tbl, clock, teamId, opponentId, matchDate, season, isHome, queryFails) ==
    LET cacheKey == CacheKey(teamId, season, isHome)
    IN  IF cacheKey \in DOMAIN cache /\ clock - cache[cacheKey].timestamp <= cacheTimeout
        THEN [features |-> cache[cacheKey].features,
              sources  |-> cache[cacheKey].sources,
              cache    |-> cache]
        ELSE IF queryFails
        THEN [features |-> getDefaultTeamFeatures(isHome), sources |-> {},
              cache    |-> cache]
        ELSE QueryAndCalculate(cache, cacheKey, clock, tbl,
                               TeamMatchesBefore(tbl, teamId, matchDate, season),
                               teamId, isHome)

\* Returns the features, their sources and the cache after the call.
getTeamHistoricalFeatures(cache, tbl, clock, teamId, opponentId, matchDate, season, isHome, queryFails) ==
    LET cacheKey == CacheKey(teamId, season, isHome)
    IN  IF cacheKey \in DOMAIN cache /\ clock - cache[cacheKey].timestamp < cacheTimeout
        THEN [features |-> cache[cacheKey].features,
              sources  |-> cache[cacheKey].sources,
              cache    |-> cache]
        ELSE IF queryFails
        THEN [features |-> getDefaultTeamFeatures(isHome), sources |-> {},
              cache    |-> cache]
        ELSE QueryAndCalculate(cache, cacheKey, clock, tbl,
                               TeamMatchesBefore(tbl, teamId, matchDate, season),
                               teamId, isHome)

\* where: the two teams in either order, status FINISHED, utcDate < matchDate
H2HMatchesBefore(tbl, homeTeamId, awayTeamId, matchDate) ==
    {i \in DOMAIN tbl :
        /\ \/ tbl[i].homeTeamId = homeTeamId /\ tbl[i].awayTeamId = awayTeamId
           \/ tbl[i].homeTeamId = awayTeamId /\ tbl[i].awayTeamId = homeTeamId
        /\ tbl[i].status = "FINISHED"
        /\ tbl[i].utcDate < matchDate}

getDefaultH2HFeatures ==
    ("h2h_total_matches" :> 0) @@ ("h2h_home_team_wins" :> 0) @@
    ("h2h_away_team_wins" :> 0) @@ ("h2h_draws" :> 0) @@
    ("h2h_home_team_win_rate" :> FracZero) @@
    ("h2h_away_team_win_rate" :> FracZero) @@
    ("h2h_draw_rate" :> FracZero) @@ ("h2h_last_5_results" :> "")

\* the team's score in m is greater than the opponent's (null compares as 0)
WonBy(m, teamId) == Num(TeamScore(m, teamId)) > Num(OpponentScore(m, teamId))

getHeadToHeadFeatures(tbl, homeTeamId, awayTeamId, matchDate, queryFails) ==
    LET ids == H2HMatchesBefore(tbl, homeTeamId, awayTeamId, matchDate)
        h2hMatches == Limit(OrderDesc(tbl, ids), RecentLimit)
        HomeWon(m) == WonBy(m, homeTeamId)
        AwayWon(m) == WonBy(m, awayTeamId)
        homeTeamWins == Count(h2hMatches, HomeWon)
        awayTeamWins == Count(h2hMatches, AwayWon)
        draws == Len(h2hMatches) - homeTeamWins - awayTeamWins
        Rate(n) == IF Len(h2hMatches) > 0 THEN Frac(n, Len(h2hMatches)) ELSE FracZero
    IN  IF queryFails
        THEN [features |-> getDefaultH2HFeatures, sources |-> {}]
        ELSE [features |->
                ("h2h_total_matches" :> Len(h2hMatches)) @@
                ("h2h_home_team_wins" :> homeTeamWins) @@
                ("h2h_away_team_wins" :> awayTeamWins) @@
                ("h2h_draws" :> draws) @@
                ("h2h_home_team_win_rate" :> Rate(homeTeamWins)) @@
                ("h2h_away_team_win_rate" :> Rate(awayTeamWins)) @@
                ("h2h_draw_rate" :> Rate(draws)) @@
                ("h2h_last_5_results" :>
                    getFormString(Slice(h2hMatches, 0, 5), homeTeamId)),
              sources |-> {h2hMatches[i].id : i \in DOMAIN h2hMatches}]

getCompetitionType(type) ==
    CASE type = "LEAGUE" -> 1 [] type = "CUP" -> 2 [] type = "FRIENDLY" -> 3
      [] OTHER -> 1

getCompetitionTier(plan) ==
    CASE plan = "TIER_ONE" -> 1 [] plan = "TIER_TWO" -> 2 [] plan = "TIER_THREE" -> 3
      [] plan = "TIER_FOUR" -> 4 [] OTHER -> 2

\* Calendar fields of a timestamp (1 August 2024 was a Thursday, getDay() = 4);
\* the table's dates lie in August and September 2024.
DayOf(date) == date \div HoursPerDay
getMonth(date) == IF DayOf(date) < 31 THEN 7 ELSE 8
getDay(date) == (4 + DayOf(date)) % 7
getHours(date) == date % HoursPerDay

\* Math.ceil(|matchDate - seasonStart| / one day), for season 2024
calculateDaysSinceSeasonStart(matchDate, season) ==
    IF season = 0 THEN 0
    ELSE (Abs(matchDate) + HoursPerDay - 1) \div HoursPerDay

BasicFeatures(match) ==
    ("matchId" :> match.id) @@ ("competitionId" :> match.competitionId) @@
    ("season" :> match.season) @@ ("matchday" :> match.matchday) @@
    ("isHomeTeam" :> TRUE) @@
    ("competitionType" :> getCompetitionType(match.competitionType)) @@
    ("competitionTier" :> getCompetitionTier(match.competitionPlan)) @@
    ("matchMonth" :> getMonth(match.utcDate) + 1) @@
    ("matchDayOfWeek" :> getDay(match.utcDate)) @@
    ("matchHour" :> getHours(match.utcDate)) @@
    ("daysSinceSeasonStart" :>
        calculateDaysSinceSeasonStart(match.utcDate, match.season)) @@
    ("isHomeVenue" :> TRUE) @@ ("venueCapacity" :> match.venueCapacity)

NoFeatures == <<>>

\* line 721: the combined vector
\* Object.assign(features, home, away, h2h): later sources win
AllFeatures(match, homeTeamFeatures, awayTeamFeatures, h2hFeatures) ==
    [status |-> "ok", error |-> "",
     features |-> h2hFeatures.features @@ awayTeamFeatures.features @@
                  homeTeamFeatures.features @@ BasicFeatures(match),
     sources |-> homeTeamFeatures.sources \cup awayTeamFeatures.sources
                    \cup h2hFeatures.sources,
     cache |-> awayTeamFeatures.cache]

\* lines 705-718: the away-team and head-to-head features, the home-team
\* features being in hand
WithHomeFeatures(tbl, clock, match, fails, homeTeamFeatures) ==
    AllFeatures(match, homeTeamFeatures,
        getTeamHistoricalFeatures(homeTeamFeatures.cache, tbl, clock,
            match.awayTeamId, match.homeTeamId, match.utcDate, match.season, FALSE,
            fails[2]),
        getHeadToHeadFeatures(tbl, match.homeTeamId, match.awayTeamId,
            match.utcDate, fails[3]))

\* generateMatchFeatures(matchId, includeHistorical = true): the result (or the
\* error thrown) and the cache after the call.  fails = <<home query fails,
\* away query fails, head-to-head query fails>>.
generateMatchFeatures(cache, tbl, clock, matchId, fails) ==
    IF matchId \notin DOMAIN tbl
    THEN [status |-> "error", error |-> "Match not found", features |-> NoFeatures,
          sources |-> {}, cache |-> cache]
    ELSE WithHomeFeatures(tbl, clock, tbl[matchId], fails,
            getTeamHistoricalFeatures(cache, tbl, clock, tbl[matchId].homeTeamId,
                tbl[matchId].awayTeamId, tbl[matchId].utcDate, tbl[matchId].season,
                TRUE, fails[1]))

(***************************************************************************)
(* MLModels: numbers.  Every number a tree or a forest handles is a        *)
(* fraction [num, den]; den = 0 is NaN, which is also what `undefined`     *)
(* converts to in a comparison.  Gini impurities are exact here, where the *)
(* program rounds to doubles.                                              *)
(***************************************************************************)
NaN == [num |-> 0, den |-> 0]

IsNaN(a) == a.den = 0

\* a <= b and a < b in JavaScript: false when either side is NaN
FracLeq(a, b) == ~IsNaN(a) /\ ~IsNaN(b) /\ a.num * b.den <= b.num * a.den

FracLt(a, b) == ~IsNaN(a) /\ ~IsNaN(b) /\ a.num * b.den < b.num * a.den

FracAdd(a, b) == Frac(a.num * b.den + b.num * a.den, a.den * b.den)

FracMul(a, b) == Frac(a.num * b.num, a.den * b.den)

(***************************************************************************)
(* FeatureEngineering.normalizeFeatures.  key.includes(...) and typeof     *)
(* value are decided from the names the feature objects are built with.    *)
(***************************************************************************)
TeamPrefixes == {Prefix(TRUE), Prefix(FALSE)}

\* the keys of a vector whose name includes the given word
WinRateKeys ==
    {K(p, n) : p \in TeamPrefixes,
               n \in {"recent_win_rate", "season_win_rate", "home_win_rate",
                      "away_win_rate"}}
        \cup {"h2h_home_team_win_rate", "h2h_away_team_win_rate"}

GoalsKeys ==
    {K(p, n) : p \in TeamPrefixes,
               n \in {"recent_goals_for", "recent_goals_against",
                      "recent_avg_goals_for", "recent_avg_goals_against",
                      "season_goals_for", "season_goals_against",
                      "season_avg_goals_for", "season_avg_goals_against"}}

PointsKeys == {K(p, n) : p \in TeamPrefixes, n \in {"recent_points", "season_points"}}

GoalDifferenceKeys ==
    {K(p, n) : p \in TeamPrefixes,
               n \in {"recent_goal_difference", "season_goal_difference"}}

MomentumKeys == {K(p, "form_momentum") : p \in TeamPrefixes}

\* the keys whose value is not of type number: booleans and strings
NonNumberKeys ==
    {"isHomeTeam", "isHomeVenue", "h2h_last_5_results"}
        \cup {K(p, "recent_form_string") : p \in TeamPrefixes}

\* the keys whose number is a quotient (held as a fraction here)
QuotientKeys ==
    WinRateKeys \cup {"h2h_draw_rate"}
        \cup {K(p, n) : p \in TeamPrefixes,
                        n \in {"recent_avg_goals_for", "recent_avg_goals_against",
                               "season_avg_goals_for", "season_avg_goals_against"}}

\* the number under a key, as a fraction
NumberAt(features, key) ==
    IF key \in QuotientKeys THEN features[key] ELSE Frac(features[key], 1)

\* lines 1146-1157
normalizations ==
    [win_rate |-> [min |-> 0, max |-> 1],
     goals |-> [min |-> 0, max |-> 10],
     points |-> [min |-> 0, max |-> 30],
     goal_difference |-> [min |-> 0 - 20, max |-> 20],
     momentum |-> [min |-> 0 - 9, max |-> 9]]

\* Math.max(0, Math.min(1, x)): NaN stays NaN
Clamp01(x) ==
    IF IsNaN(x) THEN NaN
    ELSE IF FracLt(x, FracZero) THEN FracZero
    ELSE IF FracLt(Frac(1, 1), x) THEN Frac(1, 1)
    ELSE x

normalize(value, min, max) ==
    IF max = min THEN Frac(1, 2)
    ELSE IF IsNaN(value) THEN NaN
    ELSE Clamp01(Frac(value.num - min * value.den, value.den * (max - min)))

\* the range the if-chain of lines 1164-1174 picks for a key, if any
RangeOf(key) ==
    IF key \in WinRateKeys THEN "win_rate"
    ELSE IF key \in GoalsKeys THEN "goals"
    ELSE IF key \in PointsKeys THEN "points"
    ELSE IF key \in GoalDifferenceKeys THEN "goal_difference"
    ELSE IF key \in MomentumKeys THEN "momentum"
    ELSE "none"

normalizeFeatures(features) ==
    [key \in DOMAIN features |->
        IF key \in NonNumberKeys \/ RangeOf(key) = "none" THEN features[key]
        ELSE normalize(NumberAt(features, key), normalizations[RangeOf(key)].min,
                       normalizations[RangeOf(key)].max)]

\* features[name]: the value, or undefined (NaN in a comparison)
Lookup(features, name) ==
    IF name \in DOMAIN features THEN features[name] ELSE NaN

Labels == {"HOME_TEAM", "AWAY_TEAM", "DRAW"}

(***************************************************************************)
(* MLModels: label counting.  A JavaScript object filled by label keeps    *)
(* its keys in first-encounter order: it is a sequence of [label, count].  *)
(***************************************************************************)
RECURSIVE CountLabels(_)
CountLabels(labels) ==
    IF labels = <<>> THEN <<>>
    ELSE LET front == CountLabels(SubSeq(labels, 1, Len(labels) - 1))
             label == labels[Len(labels)]
             at    == {i \in DOMAIN front : front[i].label = label}
         IN  IF at = {} THEN Append(front, [label |-> label, count |-> 1])
             ELSE [i \in DOMAIN front |->
                     IF i \in at THEN [front[i] EXCEPT !.count = @ + 1] ELSE front[i]]

\* Object.keys(probabilities).reduce((a, b) => p[a] > p[b] ? a : b): the
\* running winner is kept only when strictly greater
RECURSIVE ReduceMax(_, _)
ReduceMax(acc, rest) ==
    IF rest = <<>> THEN acc
    ELSE ReduceMax(IF FracLt(Head(rest).p, acc.p) THEN acc ELSE Head(rest), Tail(rest))

TypeError == "TypeError"

ErrorNode == [type |-> TypeError]

createLeafNode(labels) ==
    LET labelCounts == CountLabels(labels)
        total == Len(labels)
        probabilities == [i \in DOMAIN labelCounts |->
            [label |-> labelCounts[i].label, p |-> Frac(labelCounts[i].count, total)]]
    IN  IF probabilities = <<>>
        THEN ErrorNode      \* reduce of an empty array with no initial value
        ELSE [type |-> "leaf",
              probabilities |-> probabilities,
              prediction |-> ReduceMax(Head(probabilities), Tail(probabilities)).label]

calculateNodeGini(labels) ==
    IF Len(labels) = 0 THEN FracZero
    ELSE LET labelCounts == CountLabels(labels)
             squares == SumSeq([i \in DOMAIN labelCounts |->
                            labelCounts[i].count * labelCounts[i].count])
         IN  Frac(Len(labels) * Len(labels) - squares, Len(labels) * Len(labels))

calculateGiniImpurity(leftLabels, rightLabels) ==
    LET n == Len(leftLabels) + Len(rightLabels)
    IN  FracAdd(FracMul(Frac(Len(leftLabels), n), calculateNodeGini(leftLabels)),
                FracMul(Frac(Len(rightLabels), n), calculateNodeGini(rightLabels)))

\* the indices of s that arr.filter keeps, in the original order
Filter(s, Keep(_)) == SelectSeq([i \in DOMAIN s |-> i], Keep)

\* [...new Set(values)].sort((a, b) => a - b)
RECURSIVE SortAsc(_)
SortAsc(S) ==
    IF S = {} THEN <<>>
    ELSE LET lo == CHOOSE a \in S : \A b \in S : FracLeq(a, b)
         IN  <<lo>> \o SortAsc(S \ {lo})

\* Object.keys(features[0] || {}), in insertion order
KeysOf(features, featureOrder) ==
    IF features = <<>> THEN <<>>
    ELSE LET In(i) == featureOrder[i] \in DOMAIN features[1]
             kept  == Filter(featureOrder, In)
         IN  [j \in DOMAIN kept |-> featureOrder[kept[j]]]

\* the candidate splits in enumeration order: every feature in key order,
\* every midpoint of consecutive sorted unique values
Candidates(features, featureOrder) ==
    LET keys == KeysOf(features, featureOrder)
        Of(name) ==
            LET uniqueValues == SortAsc({features[i][name] :
                    i \in {j \in DOMAIN features : name \in DOMAIN features[j]}})
            IN  [i \in 1 .. (Len(uniqueValues) - 1) |->
                    [feature |-> name,
                     threshold |-> FracMul(FracAdd(uniqueValues[i], uniqueValues[i + 1]),
                                           Frac(1, 2))]]
        RECURSIVE All(_)
        All(i) == IF i > Len(keys) THEN <<>> ELSE Of(keys[i]) \o All(i + 1)
    IN  All(1)

GoesLeft(sample, split) == FracLeq(Lookup(sample, split.feature), split.threshold)

PickLabels(labels, idx) == [j \in DOMAIN idx |-> labels[idx[j]]]

PickSamples(features, idx) == [j \in DOMAIN idx |-> features[idx[j]]]

SplitGini(features, labels, split) ==
    LET L(i) == GoesLeft(features[i], split)
        R(i) == ~GoesLeft(features[i], split)
    IN  calculateGiniImpurity(PickLabels(labels, Filter(features, L)),
                              PickLabels(labels, Filter(features, R)))

NoSplit == [feature |-> Null, threshold |-> NaN]

\* the first candidate whose impurity is strictly below all before it
RECURSIVE BestOf(_, _, _, _, _)
BestOf(features, labels, cands, bestSplit, bestGini) ==
    IF cands = <<>> THEN bestSplit
    ELSE LET gini == SplitGini(features, labels, Head(cands))
         IN  IF bestSplit = NoSplit \/ FracLt(gini, bestGini)
             THEN BestOf(features, labels, Tail(cands), Head(cands), gini)
             ELSE BestOf(features, labels, Tail(cands), bestSplit, bestGini)

\* the candidates of lines 157-183 walked from the last to the first
findBestSplitReversed(features, labels, featureOrder) ==
    LET cands == Candidates(features, featureOrder)
    IN  BestOf(features, labels, [i \in DOMAIN cands |-> cands[Len(cands) + 1 - i]],
               NoSplit, NaN)

findBestSplit(features, labels, featureOrder) ==
    BestOf(features, labels, Candidates(features, featureOrder), NoSplit, NaN)

LeftOf(features, split) ==
    LET L(i) == GoesLeft(features[i], split) IN Filter(features, L)

\* a second test 'feature > threshold' in place of the else of line 131
RightOfAbove(features, split) ==
    LET R(i) == FracLt(split.threshold, Lookup(features[i], split.feature))
    IN  Filter(features, R)

RightOf(features, split) ==
    LET R(i) == ~GoesLeft(features[i], split) IN Filter(features, R)

\* the split node of lines 138-145; a child that could not be built (a leaf
\* over no labels) makes the whole construction throw
SplitNode(bestSplit, left, right) ==
    IF left = ErrorNode \/ right = ErrorNode THEN ErrorNode
    ELSE [type |-> "split", feature |-> bestSplit.feature,
          threshold |-> bestSplit.threshold, left |-> left, right |-> right]

RECURSIVE buildTree(_, _, _, _, _, _, _)
\* lines 118-145: buildTree once bestSplit and the two index lists are known
SplitOn(features, labels, depth, maxDepth, minSamplesSplit, minSamplesLeaf, featureOrder, bestSplit, leftIdx, rightIdx) ==
    IF bestSplit = NoSplit THEN createLeafNode(labels)
    ELSE IF Len(leftIdx) < minSamplesLeaf \/ Len(rightIdx) < minSamplesLeaf
    THEN createLeafNode(labels)
    ELSE SplitNode(bestSplit,
            buildTree(PickSamples(features, leftIdx), PickLabels(labels, leftIdx),
                      depth + 1, maxDepth, minSamplesSplit, minSamplesLeaf,
                      featureOrder),
            buildTree(PickSamples(features, rightIdx), PickLabels(labels, rightIdx),
                      depth + 1, maxDepth, minSamplesSplit, minSamplesLeaf,
                      featureOrder))

\* lines 111-126: buildTree once bestSplit is known
WithSplit(features, labels, depth, maxDepth, minSamplesSplit, minSamplesLeaf, featureOrder, bestSplit) ==
    SplitOn(features, labels, depth, maxDepth, minSamplesSplit, minSamplesLeaf,
            featureOrder, bestSplit, LeftOf(features, bestSplit),
            RightOf(features, bestSplit))

buildTree(features, labels, depth, maxDepth, minSamplesSplit, minSamplesLeaf, featureOrder) ==
    IF depth >= maxDepth \/ Len(features) < minSamplesSplit
    THEN createLeafNode(labels)
    ELSE WithSplit(features, labels, depth, maxDepth, minSamplesSplit,
                   minSamplesLeaf, featureOrder,
                   findBestSplit(features, labels, featureOrder))

\* randomState is accepted and never read
trainDecisionTree(features, labels, options, featureOrder) ==
    LET nodes == buildTree(features, labels, 0, options.maxDepth,
                           options.minSamplesSplit, options.minSamplesLeaf,
                           featureOrder)
    IN  IF nodes = ErrorNode THEN ErrorNode
        ELSE [type |-> "decision_tree", maxDepth |-> options.maxDepth,
              minSamplesSplit |-> options.minSamplesSplit,
              minSamplesLeaf |-> options.minSamplesLeaf, nodes |-> nodes]

(***************************************************************************)
(* MLModels: training a forest.  A training item is an object; a Match     *)
(* row carries `x`, what generateMatchFeatures followed by                 *)
(* normalizeFeatures yields for it ("throws" when feature generation       *)
(* fails).                                                                 *)
(***************************************************************************)
Throws == "throws"

\* prepareTrainingData(matches): FINISHED matches with a winner whose
\* features can be generated, in input order
prepareTrainingData(items) ==
    LET Usable(i) == /\ "status" \in DOMAIN items[i]
                     /\ items[i]["status"] = "FINISHED"
                     /\ items[i]["winner"] # Null
                     /\ items[i]["fails"] = FALSE
        kept == Filter(items, Usable)
    IN  [features |-> [j \in DOMAIN kept |-> items[kept[j]]["x"]],
         labels   |-> [j \in DOMAIN kept |-> items[kept[j]]["winner"]]]

\* What `const { features, labels } = this.prepareTrainingData(trainingData)`
\* destructures: the call is not awaited, so it is the pending Promise, an
\* object with neither property.
PendingPromise == [promise |-> "pending"]

PreparedInTrainRandomForest(trainingData) == PendingPromise

NoModel == [type |-> "none"]

\* the trees of one forest: nEstimators calls of trainDecisionTree on the
\* same features and labels (randomState + i changes nothing)
RECURSIVE TrainTrees(_, _, _, _, _)
TrainTrees(i, features, labels, options, featureOrder) ==
    IF i >= options.nEstimators THEN <<>>
    ELSE <<trainDecisionTree(features, labels,
                [options EXCEPT !.randomState = @ + i], featureOrder)>>
         \o TrainTrees(i + 1, features, labels, options, featureOrder)

\* trainRandomForest from the point where features and labels are in hand
ForestOf(features, labels, options, featureOrder, clock) ==
    LET trees == TrainTrees(0, features, labels, options, featureOrder)
    IN  IF \E i \in DOMAIN trees : trees[i] = ErrorNode
        THEN [status |-> "error", error |-> TypeError, model |-> NoModel]
        ELSE [status |-> "ok", error |-> "",
              model |-> [type |-> "random_forest",
                         nEstimators |-> options.nEstimators,
                         maxDepth |-> options.maxDepth,
                         minSamplesSplit |-> options.minSamplesSplit,
                         minSamplesLeaf |-> options.minSamplesLeaf,
                         randomState |-> options.randomState,
                         trees |-> trees,
                         featureNames |-> KeysOf(features, featureOrder),
                         trainedAt |-> clock,
                         trainingSamples |-> Len(features)]]

DefaultRandomState == 42

WithDefaults(options) ==
    IF "randomState" \in DOMAIN options THEN options
    ELSE options @@ [randomState |-> DefaultRandomState]

trainRandomForest(trainingData, options, featureOrder, clock) ==
    LET prepared == PreparedInTrainRandomForest(trainingData)
    IN  IF "features" \notin DOMAIN prepared
        THEN \* features is undefined: features[0] throws
             [status |-> "error", error |-> TypeError, model |-> NoModel]
        ELSE ForestOf(prepared.features, prepared.labels, WithDefaults(options),
                      featureOrder, clock)

(***************************************************************************)
(* MLModels: prediction.                                                   *)
(***************************************************************************)
\* node.left / node.right / node.feature of an object that may lack it
HasKey(obj, key) == key \in DOMAIN obj

RECURSIVE predictTree(_, _)
predictTree(node, features) ==
    IF node.type = "leaf" THEN node.prediction
    ELSE
    LET featureValue ==
            IF HasKey(node, "feature") THEN Lookup(features, node.feature)
            ELSE Lookup(features, Undefined)
        threshold == IF HasKey(node, "threshold") THEN node.threshold ELSE NaN
        next == IF FracLeq(featureValue, threshold) THEN "left" ELSE "right"
    IN  IF HasKey(node, next) THEN predictTree(node[next], features)
        ELSE TypeError      \* node.type of undefined

NoPrediction ==
    [status |-> "none", error |-> "", prediction |-> "", probabilities |-> <<>>,
     confidence |-> NaN, modelType |-> ""]

predictRandomForest(model, features) ==
    LET predictions == [i \in DOMAIN model.trees |->
                            predictTree(model.trees[i], features)]
        predictionCounts == CountLabels(predictions)
        totalTrees == Len(model.trees)
        probabilities == [i \in DOMAIN predictionCounts |->
            [label |-> predictionCounts[i].label,
             p |-> Frac(predictionCounts[i].count, totalTrees)]]
    IN  IF (\E i \in DOMAIN predictions : predictions[i] = TypeError)
            \/ probabilities = <<>>
        THEN [NoPrediction EXCEPT !.status = "error", !.error = TypeError]
        ELSE LET predicted == ReduceMax(Head(probabilities), Tail(probabilities))
             IN  [status |-> "ok", error |-> "",
                  prediction |-> predicted.label,
                  probabilities |-> probabilities,
                  confidence |-> predicted.p,
                  modelType |-> "random_forest"]

(***************************************************************************)
(* MLModels: the model directory.  A file is the sequence of chunks        *)
(* written to it; the JSON text of a value is cut into the chunks          *)
(* fs.writeFile hands to write(), one more chunk for each tree of a        *)
(* forest.  JSON.parse succeeds on chunks that each sit at their offset    *)
(* in a text of the file's length, whichever texts they were cut from.     *)
(***************************************************************************)
\* JSON.stringify writes NaN as null
JsonNumber(n) == IF IsNaN(n) THEN [num |-> 0, den |-> 1, null |-> TRUE] ELSE n

RECURSIVE JsonNode(_)
JsonNode(node) ==
    IF node.type = "split"
    THEN [node EXCEPT !.threshold = JsonNumber(@), !.left = JsonNode(@),
                      !.right = JsonNode(@)]
    ELSE node

\* the value JSON.parse(JSON.stringify(model)) yields
JsonValue(model) ==
    IF "trees" \in DOMAIN model
    THEN [model EXCEPT !.trees = [i \in DOMAIN @ |->
                                    [@[i] EXCEPT !.nodes = JsonNode(@)]]]
    ELSE model

ChunkCount(value) ==
    IF "trees" \in DOMAIN value THEN 1 + Len(value.trees)
    ELSE IF "records" \in DOMAIN value THEN 1 + Len(value.records)
    ELSE 1

\* the text before the first tree (or record) and after the last one
Header(value) ==
    IF "trees" \in DOMAIN value THEN [value EXCEPT !.trees = <<>>]
    ELSE IF "records" \in DOMAIN value THEN [value EXCEPT !.records = <<>>]
    ELSE value

Piece(value, k) ==
    IF k = 1 THEN Header(value)
    ELSE IF "trees" \in DOMAIN value THEN value.trees[k - 1]
    ELSE value.records[k - 1]

\* JSON.stringify(value, null, 2), as the chunks written: each chunk holds
\* its piece of the text at its offset in a text of that many chunks
JSONstringify(value) ==
    [k \in 1 .. ChunkCount(value) |->
        [part |-> k, of |-> ChunkCount(value), piece |-> Piece(JsonValue(value), k)]]

\* the value a text of whole chunks spells, wherever its chunks came from
Assemble(text) ==
    IF "trees" \in DOMAIN text[1].piece
    THEN [text[1].piece EXCEPT !.trees = [k \in 1 .. Len(text) - 1 |-> text[k + 1].piece]]
    ELSE IF "records" \in DOMAIN text[1].piece
    THEN [text[1].piece EXCEPT !.records = [k \in 1 .. Len(text) - 1 |-> text[k + 1].piece]]
    ELSE text[1].piece

\* JSON.parse: a syntax error unless every chunk sits at its offset in a
\* text of this length
JSONparse(text) ==
    IF text # <<>> /\ \A k \in DOMAIN text : text[k].part = k /\ text[k].of = Len(text)
    THEN [status |-> "ok", error |-> "", value |-> Assemble(text)]
    ELSE [status |-> "error", error |-> "SyntaxError", value |-> NoModel]

FileOf(modelName) == modelName \o ".json"

\* saveModel(model, modelName) run to completion: the directory afterwards
saveModel(dir, model, modelName) ==
    (FileOf(modelName) :> JSONstringify(model)) @@ dir

loadModel(dir, modelName) ==
    IF FileOf(modelName) \notin DOMAIN dir
    THEN [status |-> "error", error |-> "ENOENT", value |-> NoModel]
    ELSE JSONparse(dir[FileOf(modelName)])

(***************************************************************************)
(* fs.writeFile(filePath, text) of saveModel line 404, as the file system  *)
(* carries it out: the file is opened and truncated, the text is written   *)
(* chunk by chunk at the position of this descriptor, the file is closed.  *)
(***************************************************************************)
Savers == {"s1", "s2"}

IdleSave == [pc |-> "idle", file |-> "", text |-> <<>>, pos |-> 0]

NoSaves == [c \in Savers |-> IdleSave]

NotLoading == [pc |-> "idle", file |-> "", text |-> <<>>]

\* the bytes of a position that was never written
Hole == [part |-> 0, of |-> 0, piece |-> NoModel]

Truncated(dir, file) == (file :> <<>>) @@ dir

WriteAt(content, pos, chunk) ==
    [k \in 1 .. (IF Len(content) > pos THEN Len(content) ELSE pos) |->
        IF k = pos THEN chunk ELSE IF k <= Len(content) THEN content[k] ELSE Hole]

Written(dir, file, pos, chunk) == (file :> WriteAt(dir[file], pos, chunk)) @@ dir

\* the feature names of the vectors used here, in key order, and a vector
FeatureOrder == <<"f1", "f2">>

V(a, b) == ("f1" :> Frac(a, 1)) @@ ("f2" :> Frac(b, 1))

(***************************************************************************)
(* ModelTrainer: the training data and its partitions.                     *)
(***************************************************************************)
MinTrainingMatches == 100

\* the i-th row getTrainingData returns, with the features generated for it
TrainingRow(i) ==
    [id |-> i, status |-> "FINISHED",
     winner |-> IF i % 3 = 0 THEN "HOME_TEAM" ELSE IF i % 3 = 1 THEN "AWAY_TEAM" ELSE "DRAW",
     fails |-> FALSE, x |-> V(i % 2, (i \div 2) % 2)]

\* getTrainingData(): the n rows the query and the team filter leave.  The
\* options passed by the caller are not forwarded (line 36).
getTrainingData(n) == [i \in 1 .. n |-> TrainingRow(i)]

\* the orders the random comparator of splitData may leave the rows in
Shuffles == {"kept", "reversed"}

Shuffled(data, shuffle) ==
    IF shuffle = "kept" THEN data
    ELSE [i \in DOMAIN data |-> data[Len(data) + 1 - i]]

\* Math.floor(data.length * (1 - testSize)), testSize a fraction
SplitIndex(n, testSize) == (n * (testSize.den - testSize.num)) \div testSize.den

splitData(data, testSize, shuffle) ==
    [trainData |-> Slice(Shuffled(data, shuffle), 0, SplitIndex(Len(data), testSize)),
     testData  |-> Slice(Shuffled(data, shuffle), SplitIndex(Len(data), testSize),
                         Len(data))]

\* folds of equal size only: what line 373 would be without its first branch
FoldBoundsEven(n, foldIndex, totalFolds) ==
    [startIndex |-> foldIndex * (n \div totalFolds),
     endIndex   |-> (foldIndex + 1) * (n \div totalFolds)]

FoldBounds(n, foldIndex, totalFolds) ==
    [startIndex |-> foldIndex * (n \div totalFolds),
     endIndex   |-> IF foldIndex = totalFolds - 1 THEN n
                    ELSE (foldIndex + 1) * (n \div totalFolds)]

FoldAt(data, b) ==
    [cvValData   |-> Slice(data, b.startIndex, b.endIndex),
     cvTrainData |-> Slice(data, 0, b.startIndex) \o Slice(data, b.endIndex, Len(data))]

getCVFold(data, foldIndex, totalFolds) ==
    FoldAt(data, FoldBounds(Len(data), foldIndex, totalFolds))

\* the numeric, non-NaN entries of a feature object
NumericFeatures(x) == [k \in {k \in DOMAIN x : ~IsNaN(x[k])} |-> x[k]]

PreparedFrom(matchList, kept) ==
    [features |-> [j \in DOMAIN kept |-> NumericFeatures(matchList[kept[j]].x)],
     labels   |-> [j \in DOMAIN kept |->
                     IF matchList[kept[j]].winner = Null THEN "DRAW"
                     ELSE matchList[kept[j]].winner]]

\* prepareFeatures(matches): a match whose feature generation throws, or
\* that has no numeric feature, is skipped
prepareFeatures(matchList) ==
    LET Usable(i) == /\ ~matchList[i].fails
                     /\ DOMAIN NumericFeatures(matchList[i].x) # {}
    IN  PreparedFrom(matchList, Filter(matchList, Usable))

calculateAccuracy(trueLabels, predictedLabels) ==
    IF Len(trueLabels) = 0 THEN FracZero
    ELSE Frac(Cardinality({i \in DOMAIN trueLabels :
                              /\ i \in DOMAIN predictedLabels
                              /\ trueLabels[i] = predictedLabels[i]}),
              Len(trueLabels))

(***************************************************************************)
(* ModelTrainer: cross-validated training of one model type.               *)
(***************************************************************************)
RandomForestGrid ==
    <<[nEstimators |-> 50, maxDepth |-> 5, minSamplesSplit |-> 2, minSamplesLeaf |-> 1],
      [nEstimators |-> 100, maxDepth |-> 10, minSamplesSplit |-> 2, minSamplesLeaf |-> 1],
      [nEstimators |-> 150, maxDepth |-> 15, minSamplesSplit |-> 3, minSamplesLeaf |-> 2],
      [nEstimators |-> 200, maxDepth |-> 20, minSamplesSplit |-> 5, minSamplesLeaf |-> 3],
      [nEstimators |-> 100, maxDepth |-> 8, minSamplesSplit |-> 4, minSamplesLeaf |-> 2]>>

RandomForestHyperparameters(hyperparameterTuning) ==
    IF hyperparameterTuning THEN RandomForestGrid ELSE <<RandomForestGrid[2]>>

\* What one pass of the try block of lines 158-193 leaves behind.
Skipped == [kind |-> "skipped"]

Caught == [kind |-> "caught"]

\* lines 170-187: the model is evaluated on the validation fold
Evaluated(m, predictions, val, params, fold, trainSize) ==
    IF \E i \in DOMAIN predictions : predictions[i].status = "error" THEN Caught
    ELSE [kind |-> "result", fold |-> fold + 1, params |-> params,
          accuracy |-> calculateAccuracy(val.labels,
                          [i \in DOMAIN predictions |-> predictions[i].prediction]),
          trainSize |-> trainSize, valSize |-> Len(val.features), model |-> m]

\* lines 167-168: trainRandomForest is given the prepared feature objects
Trained(t, val, params, fold, trainSize) ==
    IF t.status = "error" THEN Caught
    ELSE Evaluated(t.model,
                [i \in DOMAIN val.features |-> predictRandomForest(t.model, val.features[i])],
                val, params, fold, trainSize)

\* lines 160-165
FoldPrepared(train, val, params, fold, clock) ==
    IF Len(train.features) = 0 \/ Len(val.features) = 0 THEN Skipped
    ELSE Trained(trainRandomForest(train.features, params, FeatureOrder, clock),
                 val, params, fold, Len(train.features))

CVPass(cv, params, fold, clock) ==
    FoldPrepared(prepareFeatures(cv.cvTrainData), prepareFeatures(cv.cvValData),
                 params, fold, clock)

\* the (fold, params) pairs in loop order: folds outside, the grid inside
CVOrder(cvFolds, hyperparameters) ==
    [k \in 1 .. cvFolds * Len(hyperparameters) |->
        [fold |-> (k - 1) \div Len(hyperparameters),
         params |-> hyperparameters[((k - 1) % Len(hyperparameters)) + 1]]]

NoCV == [cvResults |-> <<>>, bestModel |-> NoModel, bestScore |-> FracZero]

\* lines 180-191: a pass that produced a result is recorded, and replaces
\* the best model when strictly more accurate
Recorded(acc, r) ==
    IF r.kind # "result" THEN acc
    ELSE [cvResults |-> Append(acc.cvResults,
                           [fold |-> r.fold, params |-> r.params,
                            accuracy |-> r.accuracy, trainSize |-> r.trainSize,
                            valSize |-> r.valSize]),
          bestModel |-> IF FracLt(acc.bestScore, r.accuracy) THEN r.model
                        ELSE acc.bestModel,
          bestScore |-> IF FracLt(acc.bestScore, r.accuracy) THEN r.accuracy
                        ELSE acc.bestScore]

RECURSIVE CrossValidate(_, _, _, _, _)
CrossValidate(trainData, cvFolds, order, acc, clock) ==
    IF order = <<>> THEN acc
    ELSE CrossValidate(trainData, cvFolds, Tail(order),
            Recorded(acc, CVPass(getCVFold(trainData, Head(order).fold, cvFolds),
                                 Head(order).params, Head(order).fold, clock)),
            clock)

RECURSIVE SumAccuracy(_)
SumAccuracy(cvResults) ==
    IF cvResults = <<>> THEN FracZero
    ELSE FracAdd(Head(cvResults).accuracy, SumAccuracy(Tail(cvResults)))

\* sum / cvResults.length: 0 / 0 is NaN
AverageAccuracy(cvResults) ==
    IF cvResults = <<>> THEN NaN
    ELSE FracMul(SumAccuracy(cvResults), Frac(1, Len(cvResults)))

\* lines 200-210: the best model on the test set
FinalOn(bestModel, test) ==
    LET predictions == [i \in DOMAIN test.features |->
                            predictRandomForest(bestModel, test.features[i])]
    IN  IF \E i \in DOMAIN predictions : predictions[i].status = "error"
        THEN [status |-> "error", accuracy |-> FracZero]
        ELSE [status |-> "ok",
              accuracy |-> calculateAccuracy(test.labels,
                              [i \in DOMAIN predictions |-> predictions[i].prediction])]

FinalAccuracy(bestModel, testData) ==
    IF bestModel = NoModel THEN [status |-> "ok", accuracy |-> FracZero]
    ELSE FinalOn(bestModel, prepareFeatures(testData))

\* The names in scope at line 213 of trainRandomForestWithCV: its parameters
\* and locals.  startTime is a local of trainModels and of trainModelType.
ScopeAtLine213 ==
    {"trainData", "testData", "cvFolds", "hyperparameterTuning", "hyperparameters",
     "cvResults", "bestModel", "bestScore", "finalAccuracy"}

NoTypeResult == [success |-> FALSE, error |-> "", modelType |-> "", bestModel |-> NoModel]

Failure(message) == [NoTypeResult EXCEPT !.error = message]

\* lines 213-231
CVReturn(cv, final, cvFolds, hyperparameters) ==
    IF final.status = "error" THEN Failure(TypeError)
    ELSE IF "startTime" \notin ScopeAtLine213 THEN Failure("startTime is not defined")
    ELSE [success |-> TRUE, error |-> "", modelType |-> "random_forest",
          crossValidation |-> [folds |-> cvFolds, results |-> cv.cvResults,
                               averageAccuracy |-> AverageAccuracy(cv.cvResults)],
          bestModel |-> IF cv.bestModel = NoModel THEN NoModel
                        ELSE cv.bestModel @@ [cvScore |-> cv.bestScore,
                                              testScore |-> final.accuracy],
          finalTestAccuracy |-> final.accuracy]

CVFinal(cv, testData, cvFolds, hyperparameters) ==
    CVReturn(cv, FinalAccuracy(cv.bestModel, testData), cvFolds, hyperparameters)

trainRandomForestWithCV(trainData, testData, cvFolds, hyperparameterTuning, clock) ==
    CVFinal(CrossValidate(trainData, cvFolds,
                CVOrder(cvFolds, RandomForestHyperparameters(hyperparameterTuning)),
                NoCV, clock),
            testData, cvFolds, RandomForestHyperparameters(hyperparameterTuning))

\* the placeholder: no model, no results, accuracy 0
trainNeuralNetworkWithCV(trainData, testData, cvFolds, hyperparameterTuning) ==
    [success |-> TRUE, error |-> "", modelType |-> "neural_network",
     crossValidation |-> [folds |-> cvFolds, results |-> <<>>,
                          averageAccuracy |-> FracZero],
     bestModel |-> NoModel, finalTestAccuracy |-> FracZero]

trainModelType(modelType, trainData, testData, cvFolds, hyperparameterTuning, clock) ==
    IF modelType = "random_forest"
    THEN trainRandomForestWithCV(trainData, testData, cvFolds, hyperparameterTuning, clock)
    ELSE IF modelType = "neural_network"
    THEN trainNeuralNetworkWithCV(trainData, testData, cvFolds, hyperparameterTuning)
    ELSE Failure("Unsupported model type")

(***************************************************************************)
(* ModelTrainer: the training history file, and the model directory as     *)
(* the admin routes see it.                                                *)
(***************************************************************************)
HistoryName == "training_history"

\* JSON.stringify of a result: a NaN average is written as null
JsonResult(result) ==
    IF "crossValidation" \in DOMAIN result
    THEN [result EXCEPT !.crossValidation.averageAccuracy = JsonNumber(@)]
    ELSE result

JsonHistory(history) ==
    [records |-> [i \in DOMAIN history |->
        [history[i] EXCEPT !.results = [t \in DOMAIN @ |-> JsonResult(@[t])]]]]

\* the text saveTrainingHistory hands to fs.writeFile
HistoryText(history) == JSONstringify(JsonHistory(history))

\* saveTrainingHistory once the write has completed
saveTrainingHistory(dir, text) == (FileOf(HistoryName) :> text) @@ dir

\* loadTrainingHistory: this.trainingHistory afterwards (kept when the file
\* is missing or does not parse)
loadTrainingHistory(dir, history) ==
    IF FileOf(HistoryName) \in DOMAIN dir
       /\ JSONparse(dir[FileOf(HistoryName)]).status = "ok"
    THEN JSONparse(dir[FileOf(HistoryName)]).value.records
    ELSE history

\* AIPredictor.trainModels line 540: `${competitionId}_${modelType}_${Date.now()}`
CompetitionModelName(competitionId, modelType, clock) ==
    ToString(competitionId) \o "_" \o modelType \o "_" \o ToString(clock)

Competitions == {2021, 2014}

\* the milliseconds at which the stored competition models were saved
StoredAt == {0, 1}

\* the names that start with `${competitionId}_`
CompetitionModelNames(competitionId) ==
    {CompetitionModelName(competitionId, "neural_network", t) : t \in StoredAt}

\* the names a file of the directory can have
FileNames ==
    {"random_forest_best", "neural_network_best", "m1", HistoryName}
        \cup UNION {CompetitionModelNames(c) : c \in Competitions}

\* listModels(): one entry for each *.json file of the directory
listModels(dir) == {name \in FileNames : FileOf(name) \in DOMAIN dir}

\* deleteModel(modelName) on an existing file
deleteModel(dir, modelName) ==
    [f \in DOMAIN dir \ {FileOf(modelName)} |-> dir[f]]

(***************************************************************************)
(* The /ai/train route and the trainModels invocation behind a request.    *)
(***************************************************************************)
RequestOrder == <<"r1", "r2">>

Requests == {RequestOrder[i] : i \in DOMAIN RequestOrder}

MsPerMinute == 60 * 1000

InsufficientData == "InsufficientData"

\* line 39
TooFewOffByOne(n) == n <= MinTrainingMatches

TooFew(n) == n < MinTrainingMatches

NoResponse == [status |-> 0, message |-> ""]

NoReturn == [status |-> "none", error |-> ""]

NoBody == [modelTypes |-> <<>>, crossValidationFolds |-> 0,
           hyperparameterTuning |-> FALSE, testSize |-> FracZero,
           maxTrainingTime |-> 0]

IdleRun ==
    [pc |-> "idle", options |-> NoBody, startTime |-> 0, timerAt |-> 0, n |-> 0,
     shuffle |-> "kept", idx |-> 1, results |-> <<>>, pending |-> <<>>,
     response |-> NoResponse, returned |-> NoReturn]

NoRuns == [r \in Requests |-> IdleRun]

NoListing == {}

(***************************************************************************)
(* AIPredictor: predictMatch, getBestModel, storePrediction and            *)
(* updateMatchPrediction.                                                  *)
(***************************************************************************)
MatchNotFound == "MatchNotFound"

NotScheduled == "NotScheduled"

\* Error(`No trained model available for competition ...`)
ModelNotFound == "ModelNotFound"

\* modelName = null, and getBestModel's null
NoModelName == ""

NoBestModel == [model |-> NoModel, modelName |-> NoModelName]

\* MLModels.trainNeuralNetwork: the placeholder object
trainNeuralNetwork(samples, clock) ==
    [type |-> "neural_network", layers |-> <<64, 32, 16>>,
     learningRate |-> Frac(1, 1000), epochs |-> 100, batchSize |-> 32,
     trainedAt |-> clock, trainingSamples |-> samples, status |-> "placeholder"]

\* stats.mtime of a competition model: written once, at the time in its name
ModifiedOf(name) ==
    CHOOSE t \in StoredAt :
        \E c \in Competitions : name = CompetitionModelName(c, "neural_network", t)

\* availableModels.filter(m => m.name.startsWith(`${competitionId}_`))
CompetitionModels(dir, competitionId) ==
    listModels(dir) \cap CompetitionModelNames(competitionId)

\* sort by modified, latest first, [0]
MostRecent(names) == CHOOSE n \in names : \A m \in names : ModifiedOf(m) <= ModifiedOf(n)

\* getBestModel without its catch: whatever loadModel gave is handed on
LoadedUnchecked(r, modelName) == [model |-> r.value, modelName |-> modelName]

\* lines 685-716: the loaded model, or null when loadModel threw (catch)
Loaded(r, modelName) ==
    IF r.status = "ok" THEN [model |-> r.value, modelName |-> modelName]
    ELSE NoBestModel

LoadNamed(dir, modelName) == Loaded(loadModel(dir, modelName), modelName)

getBestModel(dir, competitionId, modelName) ==
    IF modelName # NoModelName THEN LoadNamed(dir, modelName)
    ELSE IF CompetitionModels(dir, competitionId) = {} THEN NoBestModel
    ELSE LoadNamed(dir, MostRecent(CompetitionModels(dir, competitionId)))

\* lines 612-616: the placeholder prediction of a neural network
PlaceholderPrediction ==
    [status |-> "ok", error |-> "", prediction |-> "HOME_TEAM",
     probabilities |-> <<[label |-> "HOME_TEAM", p |-> Frac(2, 5)],
                         [label |-> "AWAY_TEAM", p |-> Frac(7, 20)],
                         [label |-> "DRAW", p |-> Frac(1, 4)]>>,
     confidence |-> Frac(2, 5), modelType |-> "neural_network"]

\* lines 607-622: the prediction by model type; with any other type the
\* prediction is undefined and reading its confidence throws
PredictionWith(model, features) ==
    IF ~HasKey(model, "type") THEN [NoPrediction EXCEPT !.status = "error", !.error = TypeError]
    ELSE IF model.type = "random_forest" THEN predictRandomForest(model, features)
    ELSE IF model.type = "neural_network" THEN PlaceholderPrediction
    ELSE [NoPrediction EXCEPT !.status = "error", !.error = TypeError]

Thrown(error, cache, features) ==
    [status |-> "error", error |-> error, cache |-> cache, features |-> features,
     modelName |-> NoModelName, prediction |-> NoPrediction]

\* lines 624-637
PredictedBy(generated, normalized, bestModel, prediction) ==
    IF prediction.status = "error" THEN Thrown(prediction.error, generated.cache, normalized)
    ELSE [status |-> "ok", error |-> "", cache |-> generated.cache,
          features |-> normalized, modelName |-> bestModel.modelName,
          prediction |-> prediction]

\* lines 601-608
WithBestModel(generated, normalized, bestModel) ==
    IF bestModel = NoBestModel THEN Thrown(ModelNotFound, generated.cache, normalized)
    ELSE PredictedBy(generated, normalized, bestModel,
                     PredictionWith(bestModel.model, normalized))

\* lines 596-602
WithFeatures(dir, match, modelName, generated) ==
    WithBestModel(generated, normalizeFeatures(generated.features),
                  getBestModel(dir, match.competitionId, modelName))

\* predictMatch(matchId, modelName) up to the prediction: what it has in
\* hand, or the error it throws, and the feature cache afterwards
predictMatch(cache, tbl, dir, clock, matchId, modelName, fails) ==
    IF matchId \notin DOMAIN tbl THEN Thrown(MatchNotFound, cache, NoFeatures)
    ELSE IF tbl[matchId].status # "SCHEDULED" THEN Thrown(NotScheduled, cache, NoFeatures)
    ELSE WithFeatures(dir, tbl[matchId], modelName,
                      generateMatchFeatures(cache, tbl, clock, matchId, fails))

\* prediction.probabilities.X || 0
ProbabilityOf(probabilities, label) ==
    IF \E i \in DOMAIN probabilities : probabilities[i].label = label
    THEN probabilities[CHOOSE i \in DOMAIN probabilities :
                            probabilities[i].label = label].p
    ELSE FracZero

\* Prediction.findOrCreate, and update of the row found
storePrediction(table, matchId, modelName, prediction, clock) ==
    (<<matchId, modelName>> :>
        [matchId |-> matchId, modelName |-> modelName, modelVersion |-> "1.0",
         homeTeamWinProbability |-> ProbabilityOf(prediction.probabilities, "HOME_TEAM"),
         drawProbability |-> ProbabilityOf(prediction.probabilities, "DRAW"),
         awayTeamWinProbability |-> ProbabilityOf(prediction.probabilities, "AWAY_TEAM"),
         predictedWinner |-> prediction.prediction,
         confidence |-> prediction.confidence,
         predictionTimestamp |-> clock]) @@ table

\* Match.update({...}, { where: { id: matchId } })
updateMatchPrediction(columns, matchId, prediction, clock) ==
    [columns EXCEPT ![matchId] =
        [isPredicted |-> TRUE, predictedWinner |-> prediction.prediction,
         homeTeamWinProbability |-> ProbabilityOf(prediction.probabilities, "HOME_TEAM"),
         drawProbability |-> ProbabilityOf(prediction.probabilities, "DRAW"),
         awayTeamWinProbability |-> ProbabilityOf(prediction.probabilities, "AWAY_TEAM"),
         predictionConfidence |-> prediction.confidence,
         predictionModel |-> "AI_Predictor", predictionTimestamp |-> clock]]

\* The idle values of the AIPredictor variables: an empty Prediction table,
\* the column defaults of the Match model, no call made.
NoPredictions == <<>>

NotPredicted ==
    [isPredicted |-> FALSE, predictedWinner |-> "", homeTeamWinProbability |-> FracZero,
     drawProbability |-> FracZero, awayTeamWinProbability |-> FracZero,
     predictionConfidence |-> FracZero, predictionModel |-> "", predictionTimestamp |-> 0]

NoneIsPredicted == [id \in MatchIds |-> NotPredicted]

NoPredictResult ==
    [status |-> "none", error |-> "", matchId |-> 0, requested |-> "", modelName |-> "",
     features |-> <<>>, prediction |-> NoPrediction]

\* The idle values of the MLModels variables.
NoTrainOut == [status |-> "none", error |-> "", model |-> NoModel, options |-> <<>>,
               samples |-> 0]

\* FootballDataAPI: the requests a model run makes, and an idle instance
ApiRequests == {"q1", "q2", "q3"}

IdleRequest == [pc |-> "idle", wakeAt |-> 0]

NoApi ==
    [requestCount |-> 0, lastResetTime |-> 0, sent |-> <<>>,
     requests |-> [q \in ApiRequests |-> IdleRequest]]

\* no function under study was called
NotCalled == [op |-> "none"]

NotLoaded == [status |-> "none", error |-> "", value |-> NoModel]

NoCall == [x |-> <<>>, out |-> NoPrediction]

NoPredOut == [memory |-> NoCall, disk |-> NoCall]

(***************************************************************************)
(* Specification SpecFeat: one FeatureEngineering instance serving         *)
(* generateMatchFeatures calls while the clock advances and results arrive *)
(* in the Match table.                                                     *)
(***************************************************************************)
TickMs == 15 * 60 * 1000

MaxTicks == 2

FinalScores == {<<3, 1>>}

\* Which of the three history queries of one call fail: none, or one of them.
FailCases ==
    {<<FALSE, FALSE, FALSE>>, <<TRUE, FALSE, FALSE>>, <<FALSE, TRUE, FALSE>>,
     <<FALSE, FALSE, TRUE>>}

winnerOf(hs, as) ==
    IF hs > as THEN "HOME_TEAM" ELSE IF hs < as THEN "AWAY_TEAM" ELSE "DRAW"

NoResult == [status |-> "none", matchId |-> 0, error |-> "", features |-> NoFeatures,
             sources |-> {}]

InitFeat ==
    /\ matches = MatchTable
    /\ now = 0
    /\ featureCache = <<>>
    /\ featResult = NoResult
    /\ files = <<>>
    /\ forest = NoModel
    /\ trainOut = NoTrainOut
    /\ loaded = NotLoaded
    /\ predOut = NoPredOut
    /\ saving = NoSaves
    /\ loading = NotLoading
    /\ dbRows = 0
    /\ trainingHistory = <<>>
    /\ bestModels = <<>>
    /\ runs = NoRuns
    /\ listing = NoListing
    /\ started = 0
    /\ rfTrained = FALSE
    /\ predictionRecords = NoPredictions
    /\ matchPrediction = NoneIsPredicted
    /\ predictResult = NoPredictResult
    /\ called = NotCalled
    /\ api = NoApi

\* the call returns (or throws) r
Returned(matchId, r) ==
    /\ featureCache' = r.cache
    /\ featResult' = [status |-> r.status, matchId |-> matchId, error |-> r.error,
                      features |-> r.features, sources |-> r.sources]
    /\ UNCHANGED <<apiVars, callVars, predictVars, trainVars, storeVars, matches, now, mlVars>>

GenerateMatchFeatures(matchId, fails) ==
    Returned(matchId, generateMatchFeatures(featureCache, matches, now, matchId, fails))

\* The ingestion job records the final score of a scheduled match
\* (DataProcessor.processMatches updating an existing row).
DataArrives(id, score) ==
    /\ matches[id].status = "SCHEDULED"
    /\ matches' = [matches EXCEPT ![id].status = "FINISHED",
                                  ![id].homeTeamScore = score[1],
                                  ![id].awayTeamScore = score[2],
                                  ![id].winner = winnerOf(score[1], score[2])]
    /\ UNCHANGED <<apiVars, callVars, predictVars, trainVars, storeVars, now, featureCache, featResult, mlVars>>

Tick ==
    /\ now < MaxTicks * TickMs
    /\ now' = now + TickMs
    /\ UNCHANGED <<apiVars, callVars, predictVars, trainVars, storeVars, featVars, mlVars>>

NextFeat ==
    \/ \E matchId \in MatchIds \cup {UnknownMatchId},
          fails \in FailCases :
            GenerateMatchFeatures(matchId, fails)
    \/ \E id \in MatchIds, score \in FinalScores : DataArrives(id, score)
    \/ Tick

SpecFeat == InitFeat /\ [][NextFeat]_vars

(***************************************************************************)
(* Claims checked under SpecFeat.                                          *)
(***************************************************************************)

\* C1: no data leakage.  Whatever calls came before on this instance, every
\* team-history and head-to-head feature of a returned vector is computed
\* only from FINISHED matches whose utcDate is strictly before the utcDate
\* of the match being featurized.
C1_NoLeakage ==
    featResult.status = "ok" =>
        \A i \in featResult.sources :
            /\ matches[i].status = "FINISHED"
            /\ matches[i].utcDate < matches[featResult.matchId].utcDate


(***************************************************************************)
(* Specification SpecPredict: one MLModels instance.  A forest shaped as   *)
(* trainRandomForest builds it (lines 50-72) is at hand; it is saved,      *)
(* loaded and asked for predictions, and trainRandomForest is called.      *)
(***************************************************************************)
\* a finished Match row with the features generated for it
Item(a, b, winner) ==
    [id |-> 2 * a + b + 1, status |-> "FINISHED", winner |-> winner,
     fails |-> FALSE, x |-> V(a, b)]

TrainingSets ==
    {<<Item(0, 0, "HOME_TEAM"), Item(1, 0, "AWAY_TEAM"), Item(0, 1, "HOME_TEAM"),
       Item(1, 1, "DRAW")>>,
     <<Item(0, 0, "HOME_TEAM"), Item(1, 1, "AWAY_TEAM")>>,
     <<Item(0, 1, "DRAW"), Item(0, 1, "HOME_TEAM"), Item(1, 0, "DRAW")>>,
     <<Item(1, 1, "AWAY_TEAM")>>}

MaxEstimators == 2

MaxTreeDepth == 2

OptionSets ==
    {[nEstimators |-> n, maxDepth |-> d, minSamplesSplit |-> 2, minSamplesLeaf |-> 1] :
        n \in 1 .. MaxEstimators, d \in 1 .. MaxTreeDepth}

\* the feature objects ModelTrainer hands over instead of Match rows
FeaturesOf(items) == [i \in DOMAIN items |-> items[i].x]

\* the forest the construction of lines 50-72 yields on these inputs
EnsembleOf(d, o) ==
    ForestOf(FeaturesOf(d), [i \in DOMAIN d |-> d[i].winner], WithDefaults(o),
             FeatureOrder, 0).model

Vectors == {V(0, 0), V(1, 0), V(1, 1), ("f1" :> Frac(1, 2))}

ModelNames == {"random_forest_best", "m1"}

Sources == {"memory", "disk"}

InitPredict ==
    /\ matches = MatchTable
    /\ now = 0
    /\ featureCache = <<>>
    /\ featResult = NoResult
    /\ files = <<>>
    /\ \E d \in TrainingSets, o \in OptionSets : forest = EnsembleOf(d, o)
    /\ trainOut = NoTrainOut
    /\ loaded = NotLoaded
    /\ predOut = NoPredOut
    /\ saving = NoSaves
    /\ loading = NotLoading
    /\ dbRows = 0
    /\ trainingHistory = <<>>
    /\ bestModels = <<>>
    /\ runs = NoRuns
    /\ listing = NoListing
    /\ started = 0
    /\ rfTrained = FALSE
    /\ predictionRecords = NoPredictions
    /\ matchPrediction = NoneIsPredicted
    /\ predictResult = NoPredictResult
    /\ called = NotCalled
    /\ api = NoApi

TrainRandomForest(trainingData, options) ==
    LET r == trainRandomForest(trainingData, options, FeatureOrder, now)
    IN  /\ trainOut' = [status |-> r.status, error |-> r.error, model |-> r.model,
                         options |-> options, samples |-> Len(trainingData)]
        /\ forest' = IF r.status = "ok" THEN r.model ELSE forest
        /\ UNCHANGED <<apiVars, callVars, predictVars, trainVars, storeVars, now, featVars, files, loaded, predOut>>

SaveModel(modelName) ==
    /\ files' = saveModel(files, forest, modelName)
    /\ UNCHANGED <<apiVars, callVars, predictVars, trainVars, storeVars, now, featVars, forest, trainOut, loaded, predOut>>

LoadModel(modelName) ==
    /\ loaded' = loadModel(files, modelName)
    /\ predOut' = [predOut EXCEPT !.disk = NoCall]
    /\ UNCHANGED <<apiVars, callVars, predictVars, trainVars, storeVars, now, featVars, files, forest, trainOut>>

PredictRandomForest(source, x) ==
    /\ source = "disk" => loaded.status = "ok"
    /\ LET m == IF source = "disk" THEN loaded.value ELSE forest
       IN  predOut' = [predOut EXCEPT ![source] =
                          [x |-> x, out |-> predictRandomForest(m, x)]]
    /\ UNCHANGED <<apiVars, callVars, predictVars, trainVars, storeVars, now, featVars, files, forest, trainOut, loaded>>

NextPredict ==
    \/ \E d \in TrainingSets, o \in OptionSets : TrainRandomForest(d, o)
    \/ \E d \in TrainingSets, o \in OptionSets : TrainRandomForest(FeaturesOf(d), o)
    \/ \E n \in ModelNames : SaveModel(n)
    \/ \E n \in ModelNames : LoadModel(n)
    \/ \E s \in Sources, x \in Vectors : PredictRandomForest(s, x)

SpecPredict == InitPredict /\ [][NextPredict]_vars

(***************************************************************************)
(* Claims checked under SpecPredict.                                       *)
(***************************************************************************)
RECURSIVE SumP(_)
SumP(probabilities) ==
    IF probabilities = <<>> THEN FracZero
    ELSE FracAdd(Head(probabilities).p, SumP(Tail(probabilities)))

\* C3: for every ensemble with at least one tree and every feature vector,
\* predictRandomForest returns without error a probability mapping whose
\* values sum to 1 and a confidence equal to the largest value of the
\* mapping, which is the probability of the predicted class.
C3_PredictionValid ==
    LET r == predOut.memory.out
    IN  r.status # "none" =>
            /\ r.status = "ok"
            /\ SumP(r.probabilities) = Frac(1, 1)
            /\ \A i \in DOMAIN r.probabilities :
                   FracLeq(r.probabilities[i].p, r.confidence)
            /\ \E i \in DOMAIN r.probabilities :
                   /\ r.probabilities[i].label = r.prediction
                   /\ r.probabilities[i].p = r.confidence

\* C4: round trip.  A prediction made on the model loaded back from the file
\* it was saved to returns the same class, probability mapping and confidence
\* as the prediction made on the ensemble in memory for the same vector.
C4_RoundTrip ==
    LET r == predOut.disk.out
    IN  r.status # "none" =>
            /\ r.status = "ok"
            /\ r = predictRandomForest(forest, predOut.disk.x)

\* C9: trainRandomForest called with a non-empty training set returns an
\* ensemble holding exactly nEstimators trees, the hyperparameters it was
\* given, the feature-name schema and the number of samples trained on.
C9_TrainReturnsEnsemble ==
    trainOut.status # "none" =>
        /\ trainOut.status = "ok"
        /\ Len(trainOut.model.trees) = trainOut.options.nEstimators
        /\ trainOut.model.nEstimators = trainOut.options.nEstimators
        /\ trainOut.model.maxDepth = trainOut.options.maxDepth
        /\ trainOut.model.featureNames = FeatureOrder
        /\ trainOut.model.trainingSamples = trainOut.samples

(***************************************************************************)
(* Specification SpecTrain: one server process with its ModelTrainer.      *)
(* Admin requests train models (each POST /ai/train races trainModels      *)
(* against a timer), read the training statistics, list and delete         *)
(* models; time passes and the process may be restarted.                   *)
(***************************************************************************)
DataSizes == {MinTrainingMatches - 1, MinTrainingMatches, MinTrainingMatches + 50}

\* request bodies that pass the Joi schema (lines 565-575)
TrainBodies ==
    {[modelTypes |-> types, crossValidationFolds |-> 5, hyperparameterTuning |-> TRUE,
      testSize |-> Frac(1, 5), maxTrainingTime |-> 5] :
        types \in {<<"random_forest">>, <<"neural_network", "random_forest">>}}

InitTrain ==
    /\ matches = MatchTable
    /\ now = 0
    /\ featureCache = <<>>
    /\ featResult = NoResult
    /\ files = <<>>
    /\ forest = NoModel
    /\ trainOut = NoTrainOut
    /\ loaded = NotLoaded
    /\ predOut = NoPredOut
    /\ saving = NoSaves
    /\ loading = NotLoading
    /\ dbRows \in DataSizes
    /\ trainingHistory = <<>>
    /\ bestModels = <<>>
    /\ runs = NoRuns
    /\ listing = NoListing
    /\ started = 0
    /\ rfTrained = FALSE
    /\ predictionRecords = NoPredictions
    /\ matchPrediction = NoneIsPredicted
    /\ predictResult = NoPredictResult
    /\ called = NotCalled
    /\ api = NoApi

\* the response the route sends unless the timer has answered already
Respond(run, status, message) ==
    IF run.response.status = 0 THEN [status |-> status, message |-> message]
    ELSE run.response

\* POST /ai/train, lines 564-633: the body is validated, trainModels is
\* called (it runs up to its first await) and the timer is armed
PostTrain(r, body) ==
    /\ runs[r].pc = "idle"
    /\ started < Len(RequestOrder)
    /\ r = RequestOrder[started + 1]
    /\ started' = started + 1
    /\ runs' = [runs EXCEPT ![r] =
            [IdleRun EXCEPT !.pc = "getData", !.options = body, !.startTime = now,
                            !.timerAt = now + (body.maxTrainingTime + 5) * MsPerMinute]]
    /\ UNCHANGED <<apiVars, callVars, predictVars, now, storeVars, featVars, mlVars, dbRows, trainingHistory, bestModels, listing,
                   rfTrained>>

\* trainModels lines 36-46: the data is fetched, counted and split
GetTrainingData(r, shuffle) ==
    /\ runs[r].pc = "getData"
    /\ runs' = [runs EXCEPT ![r] =
            IF TooFew(dbRows)
            THEN [IdleRun EXCEPT !.pc = "done",
                           !.returned = [status |-> "error", error |-> InsufficientData],
                           !.response = Respond(runs[r], 500, "Training Failed")]
            ELSE [@ EXCEPT !.pc = "loop", !.n = dbRows, !.shuffle = shuffle]]
    /\ UNCHANGED <<apiVars, callVars, predictVars, now, storeVars, featVars, mlVars, dbRows, trainingHistory, bestModels, listing,
                   started, rfTrained>>

\* lines 57-80: the result of one model type is recorded, its best model saved
AfterTraining(r, modelType, modelResult) ==
    /\ runs' = [runs EXCEPT ![r] =
            [@ EXCEPT !.results = (modelType :>
                            IF modelResult.success THEN modelResult
                            ELSE [success |-> FALSE, error |-> modelResult.error])
                        @@ runs[r].results,
                      !.idx = IF runs[r].idx + 1 > Len(runs[r].options.modelTypes)
                             THEN IdleRun.idx ELSE @ + 1,
                      !.shuffle = IF runs[r].idx + 1 > Len(runs[r].options.modelTypes)
                                  THEN IdleRun.shuffle ELSE @,
                      !.pc = IF runs[r].idx + 1 > Len(runs[r].options.modelTypes)
                             THEN "record" ELSE "loop"]]
    /\ IF modelResult.success /\ modelResult.bestModel # NoModel
       THEN /\ files' = saveModel(files, modelResult.bestModel, modelType \o "_best")
            /\ bestModels' = (modelType :> modelResult.bestModel) @@ bestModels
       ELSE UNCHANGED <<files, bestModels>>
    /\ UNCHANGED <<apiVars, callVars, predictVars, now, storeVars, featVars, forest, trainOut, loaded, predOut, dbRows,
                   trainingHistory, listing, started, rfTrained>>

\* the split of line 46, for the rows and the order of this run
SplitOf(run) == splitData(getTrainingData(run.n), run.options.testSize, run.shuffle)

TrainOn(r, modelType, split) ==
    AfterTraining(r, modelType,
        trainModelType(modelType, split.trainData, split.testData,
                       runs[r].options.crossValidationFolds,
                       runs[r].options.hyperparameterTuning, now))

\* lines 49-81: one iteration of the loop over the model types
TrainNext(r) ==
    /\ runs[r].pc = "loop"
    /\ IF now - runs[r].startTime > runs[r].options.maxTrainingTime * MsPerMinute
       THEN /\ runs' = [runs EXCEPT ![r].pc = "record", ![r].idx = IdleRun.idx,
                                    ![r].shuffle = IdleRun.shuffle]
            /\ UNCHANGED <<apiVars, callVars, predictVars, now, storeVars, featVars, mlVars, dbRows, trainingHistory, bestModels,
                           listing, started, rfTrained>>
       ELSE TrainOn(r, runs[r].options.modelTypes[runs[r].idx], SplitOf(runs[r]))

TrainingRecord(run, clock) ==
    [timestamp |-> clock, duration |-> clock - run.startTime, options |-> run.options,
     results |-> run.results,
     dataStats |-> [totalMatches |-> run.n,
                    trainSize |-> SplitIndex(run.n, run.options.testSize),
                    testSize |-> run.n - SplitIndex(run.n, run.options.testSize)]]

\* lines 83-99: the record is pushed and the history is handed to writeFile
RecordHistory(r) ==
    /\ runs[r].pc = "record"
    /\ trainingHistory' = Append(trainingHistory, TrainingRecord(runs[r], now))
    /\ runs' = [runs EXCEPT ![r].pc = "write",
                            ![r].pending = HistoryText(trainingHistory')]
    /\ UNCHANGED <<apiVars, callVars, predictVars, now, storeVars, featVars, mlVars, dbRows, bestModels, listing, started,
                   rfTrained>>

\* the write completes, trainModels returns success (lines 103-109) and the
\* route answers unless the timer has (lines 635-653)
WriteHistory(r) ==
    /\ runs[r].pc = "write"
    /\ files' = saveTrainingHistory(files, runs[r].pending)
    /\ runs' = [runs EXCEPT ![r] =
            [IdleRun EXCEPT !.pc = "done",
                            !.returned = [status |-> "success", error |-> ""],
                            !.response = Respond(runs[r], 200,
                                                 "AI models trained successfully")]]
    /\ rfTrained' = (rfTrained \/ "random_forest" \in DOMAIN runs[r].results)
    /\ UNCHANGED <<apiVars, callVars, predictVars, now, storeVars, featVars, forest, trainOut, loaded, predOut, dbRows,
                   trainingHistory, bestModels, listing, started>>

\* lines 630-632 and 657-664: the timer wins the race
TimerFires(r) ==
    /\ runs[r].pc \notin {"idle", "done", "dropped"}
    /\ runs[r].response.status = 0
    /\ now >= runs[r].timerAt
    /\ runs' = [runs EXCEPT ![r].response = [status |-> 408,
                                             message |-> "Training Timeout"]]
    /\ UNCHANGED <<apiVars, callVars, predictVars, now, storeVars, featVars, mlVars, dbRows, trainingHistory, bestModels, listing,
                   started, rfTrained>>

\* the timers of line 631 that are still to come
Deadlines ==
    {runs[r].timerAt : r \in {q \in Requests : /\ runs[q].pc \notin {"idle", "done", "dropped"}
                                              /\ runs[q].timerAt > now}}

\* time passes until the next of them is due
Elapse ==
    /\ Deadlines # {}
    /\ now' = CHOOSE t \in Deadlines : \A u \in Deadlines : t <= u
    /\ UNCHANGED <<apiVars, callVars, predictVars, featVars, mlVars, trainVars, storeVars>>

\* modelTrainer.loadTrainingHistory(), as GET /ai/training-stats calls it
LoadTrainingHistory ==
    /\ trainingHistory' = loadTrainingHistory(files, trainingHistory)
    /\ UNCHANGED <<apiVars, callVars, predictVars, now, storeVars, featVars, mlVars, dbRows, bestModels, runs, listing, started,
                   rfTrained>>

\* mlModels.listModels(), as GET /ai/models calls it
ListModels ==
    /\ listing' = listModels(files)
    /\ UNCHANGED <<apiVars, callVars, predictVars, now, storeVars, featVars, mlVars, dbRows, trainingHistory, bestModels, runs,
                   started, rfTrained>>

\* mlModels.deleteModel(modelName), as DELETE /ai/models/:modelName calls it
DeleteModel(modelName) ==
    /\ FileOf(modelName) \in DOMAIN files
    /\ files' = deleteModel(files, modelName)
    /\ rfTrained' = (rfTrained /\ modelName # "random_forest_best")
    /\ UNCHANGED <<apiVars, callVars, predictVars, now, storeVars, featVars, forest, trainOut, loaded, predOut, dbRows,
                   trainingHistory, bestModels, runs, listing, started>>

\* a request that was being served when the process stopped
Dropped(run) == [IdleRun EXCEPT !.pc = "dropped", !.response = run.response]

\* the process is stopped and started again: the directory stays, the
\* trainer is constructed anew and the requests in flight are gone
Restart ==
    /\ trainingHistory' = <<>>
    /\ bestModels' = <<>>
    /\ runs' = [r \in Requests |->
                    IF runs[r].pc \in {"idle", "done", "dropped"} THEN runs[r]
                    ELSE Dropped(runs[r])]
    /\ featureCache' = <<>>
    /\ UNCHANGED <<apiVars, callVars, predictVars, now, storeVars, matches, featResult, mlVars, dbRows, listing, started,
                   rfTrained>>

NextTrain ==
    \/ \E r \in Requests, body \in TrainBodies : PostTrain(r, body)
    \/ \E r \in Requests, shuffle \in Shuffles : GetTrainingData(r, shuffle)
    \/ \E r \in Requests : TrainNext(r)
    \/ \E r \in Requests : RecordHistory(r)
    \/ \E r \in Requests : WriteHistory(r)
    \/ \E r \in Requests : TimerFires(r)
    \/ LoadTrainingHistory
    \/ ListModels
    \/ \E name \in FileNames : DeleteModel(name)
    \/ Restart
    \/ Elapse

SpecTrain == InitTrain /\ [][NextTrain]_vars

(***************************************************************************)
(* Claims about training, checked under SpecTrain.                         *)
(***************************************************************************)
\* the request's invocation of trainModels takes a step (the timer's answer
\* is no step of it)
Steps(r) ==
    /\ [runs'[r] EXCEPT !.response = runs[r].response] # runs[r]
    /\ runs'[r].pc # "dropped"

C6_MinimumSamples ==
    [][\A r \in Requests :
        (runs[r].pc = "getData" /\ Steps(r)) =>
            IF dbRows < 100
            THEN /\ runs'[r].pc = "done"
                 /\ runs'[r].returned = [status |-> "error", error |-> InsufficientData]
                 /\ files' = files
                 /\ trainingHistory' = trainingHistory
                 /\ bestModels' = bestModels
            ELSE /\ runs'[r].pc = "loop"
                 /\ runs'[r].returned = NoReturn]_vars

\* 99 matches: a request has been answered with the InsufficientData failure
C6_Witness ==
    /\ dbRows = 99
    /\ \E r \in Requests : /\ runs[r].pc = "done"
                           /\ runs[r].returned.error = InsufficientData
                           /\ runs[r].response.status = 500
    /\ files = <<>>
    /\ trainingHistory = <<>>

\* a cross-validation average that is a number between 0 and 1
IsAccuracy(x) == ~IsNaN(x) /\ FracLeq(FracZero, x) /\ FracLeq(x, Frac(1, 1))

\* C7: with at least 100 matches, modelTypes = ['random_forest'] and 5
\* folds, the random_forest result of trainModels is marked successful and
\* carries a cross-validation averageAccuracy in [0,1].
C7_RandomForestSucceeds ==
    \A r \in Requests :
        (/\ runs[r].options.modelTypes = <<"random_forest">>
         /\ runs[r].options.crossValidationFolds = 5
         /\ runs[r].n >= 100
         /\ "random_forest" \in DOMAIN runs[r].results) =>
            /\ runs[r].results["random_forest"].success
            /\ "crossValidation" \in DOMAIN runs[r].results["random_forest"]
            /\ IsAccuracy(runs[r].results["random_forest"].crossValidation.averageAccuracy)

\* C8: after a trainModels invocation that trained 'random_forest' has
\* returned success, and until that model is deleted, every listing of the
\* models includes 'random_forest_best'.
C8_ListedAfterTraining ==
    [][(listing' # listing /\ rfTrained) => "random_forest_best" \in listing']_vars

\* the records of the training history file
Persisted(dir) == loadTrainingHistory(dir, <<>>)

IsPrefix(s, t) == Len(s) <= Len(t) /\ \A i \in DOMAIN s : t[i] = s[i]

\* C10: the persisted training history is append-only: whatever training
\* runs, loads and restarts happen, every record once in the file stays in
\* it, unchanged and at its position.
C10_AppendOnly ==
    [][(FileOf(HistoryName) \in DOMAIN files /\ FileOf(HistoryName) \in DOMAIN files')
            => IsPrefix(Persisted(files), Persisted(files'))]_vars

(***************************************************************************)
(* Specification SpecStore: two callers save ensembles under the name      *)
(* '<modelType>_best' of trainModels line 70 at the same time; saveModel   *)
(* takes no lock, so the steps of their writeFile calls interleave.        *)
(***************************************************************************)
BestName == "random_forest" \o "_best"

\* ensembles of one tree and of more, at the full depth
StoreModels ==
    {EnsembleOf(d, o) : d \in TrainingSets,
                        o \in {x \in OptionSets : x.maxDepth = MaxTreeDepth}}

InitStore ==
    /\ matches = MatchTable
    /\ now = 0
    /\ featureCache = <<>>
    /\ featResult = NoResult
    /\ files = <<>>
    /\ forest = NoModel
    /\ trainOut = NoTrainOut
    /\ loaded = NotLoaded
    /\ predOut = NoPredOut
    /\ saving = NoSaves
    /\ loading = NotLoading
    /\ dbRows = 0
    /\ trainingHistory = <<>>
    /\ bestModels = <<>>
    /\ runs = NoRuns
    /\ listing = NoListing
    /\ started = 0
    /\ rfTrained = FALSE
    /\ predictionRecords = NoPredictions
    /\ matchPrediction = NoneIsPredicted
    /\ predictResult = NoPredictResult
    /\ called = NotCalled
    /\ api = NoApi

\* saveModel lines 401-404: the text is made and the file opened for writing
OpenFile(c, model, modelName) ==
    /\ saving[c].pc = "idle"
    /\ saving' = [saving EXCEPT ![c] = [pc |-> "open", file |-> FileOf(modelName),
                                        text |-> JSONstringify(model), pos |-> 0]]
    /\ files' = Truncated(files, FileOf(modelName))
    /\ UNCHANGED <<apiVars, callVars, predictVars, trainVars, loading, now, featVars, forest, trainOut, loaded, predOut>>

WriteChunk(c) ==
    /\ saving[c].pc = "open"
    /\ saving[c].pos < Len(saving[c].text)
    /\ files' = Written(files, saving[c].file, saving[c].pos + 1,
                        saving[c].text[saving[c].pos + 1])
    /\ saving' = [saving EXCEPT ![c].pos = @ + 1]
    /\ UNCHANGED <<apiVars, callVars, predictVars, trainVars, loading, now, featVars, forest, trainOut, loaded, predOut>>

\* the file is closed and saveModel returns (lines 406-407)
CloseFile(c) ==
    /\ saving[c].pc = "open"
    /\ saving[c].pos = Len(saving[c].text)
    /\ saving' = [saving EXCEPT ![c] = IdleSave]
    /\ UNCHANGED <<apiVars, callVars, predictVars, trainVars, loading, now, featVars, mlVars>>

NextStore ==
    \/ \E c \in Savers, model \in StoreModels : OpenFile(c, model, BestName)
    \/ \E c \in Savers : WriteChunk(c)
    \/ \E c \in Savers : CloseFile(c)
    \/ LoadModel(BestName)

SpecStore == InitStore /\ [][NextStore]_vars

\* C5: two invocations that save the same model name are serialized: once
\* both have finished, the stored file is the complete serialization of one
\* of the ensembles saved, never a mix of two writes.
C5_Serialized ==
    (FileOf(BestName) \in DOMAIN files /\ \A c \in Savers : saving[c].pc = "idle")
        => \E model \in StoreModels : files[FileOf(BestName)] = JSONstringify(model)

(***************************************************************************)
(* Specification SpecLoad: one caller saves ensembles under a name and     *)
(* deletes them while another loads that name; readFile and writeFile      *)
(* each take several steps on the file, and nothing orders them.           *)
(***************************************************************************)
Writer == "s1"

\* the ensembles saved here: one tree each, so their texts are equally long
LoadModels == {model \in StoreModels : model.nEstimators = 1}

InitLoad == InitStore

\* loadModel line 419: readFile opens the file, or fails for want of it
OpenLoad(modelName) ==
    /\ loading.pc = "idle"
    /\ IF FileOf(modelName) \in DOMAIN files
       THEN /\ loading' = [pc |-> "open", file |-> FileOf(modelName), text |-> <<>>]
            /\ UNCHANGED loaded
       ELSE /\ loaded' = loadModel(files, modelName)
            /\ UNCHANGED loading
    /\ UNCHANGED <<apiVars, callVars, predictVars, trainVars, saving, now, featVars, files, forest, trainOut, predOut>>

\* readFile reads the next chunk of what the file holds at that moment
ReadChunk ==
    /\ loading.pc = "open"
    /\ Len(loading.text) < Len(files[loading.file])
    /\ loading' = [loading EXCEPT !.text = Append(@, files[loading.file][Len(@) + 1])]
    /\ UNCHANGED <<apiVars, callVars, predictVars, trainVars, saving, now, featVars, mlVars>>

\* the end of the file is met: what was read is parsed (line 420)
FinishLoad ==
    /\ loading.pc = "open"
    /\ Len(loading.text) >= Len(files[loading.file])
    /\ loaded' = JSONparse(loading.text)
    /\ loading' = NotLoading
    /\ UNCHANGED <<apiVars, callVars, predictVars, trainVars, saving, now, featVars, files, forest, trainOut, predOut>>

\* deleteModel of a file that no writeFile or readFile holds open
DeleteClosed(modelName) ==
    /\ loading.file # FileOf(modelName)
    /\ \A c \in Savers : saving[c].file # FileOf(modelName)
    /\ DeleteModel(modelName)

NextLoad ==
    \/ \E model \in LoadModels : OpenFile(Writer, model, BestName)
    \/ WriteChunk(Writer)
    \/ CloseFile(Writer)
    \/ OpenLoad(BestName)
    \/ ReadChunk
    \/ FinishLoad
    \/ DeleteClosed(BestName)

SpecLoad == InitLoad /\ [][NextLoad]_vars

\* the models saveModel was called with
SavedValues == {JsonValue(model) : model \in LoadModels}

\* C13: loadModel on a name that has no file fails with the error of the
\* missing file (ENOENT), and however a loadModel interleaves with saveModel
\* and deleteModel on its name, it fails or returns a model equal to one
\* that saveModel was called with, never a partial or mixed one.
C13_LoadIsWhole ==
    [][loaded' # loaded =>
        IF loading.pc = "idle"
        THEN loaded'.status = "error" /\ loaded'.error = "ENOENT"
        ELSE loaded'.status = "error" \/ loaded'.value \in SavedValues]_vars

(***************************************************************************)
(* Further claims about training, checked under SpecTrain.                 *)
(***************************************************************************)
\* a requested model type failed, or was not trained because the loop broke
FailedOrSkipped(run) ==
    \E i \in DOMAIN run.options.modelTypes :
        \/ run.options.modelTypes[i] \notin DOMAIN run.results
        \/ ~run.results[run.options.modelTypes[i]].success

\* C11: when the training of a requested model type failed, or was skipped
\* because the time budget was exceeded, trainModels does not return a
\* result with success = true.
C11_TypedFailure ==
    [][\A r \in Requests :
        (runs[r].pc = "write" /\ runs'[r].pc = "done" /\ FailedOrSkipped(runs[r]))
            => runs'[r].returned.status # "success"]_vars

(***************************************************************************)
(* Specification SpecServe: one AIPredictor over the Match table and a     *)
(* model directory left by earlier trainings.  Matches are predicted,      *)
(* models deleted, results arrive and the clock advances.                  *)
(***************************************************************************)
\* one forest of the trained shape, for a model saved under a chosen name
NamedForest ==
    EnsembleOf(<<Item(0, 0, "HOME_TEAM"), Item(1, 1, "AWAY_TEAM")>>,
               [nEstimators |-> 1, maxDepth |-> 1, minSamplesSplit |-> 2,
                minSamplesLeaf |-> 1])

SavedNetwork(dir, competitionId, clock) ==
    saveModel(dir, trainNeuralNetwork(MinTrainingMatches, clock),
              CompetitionModelName(competitionId, "neural_network", clock))

\* the directories the process can find at start
ServeDirs ==
    {<<>>,
     SavedNetwork(<<>>, 2014, 0),
     SavedNetwork(<<>>, 2021, 0),
     SavedNetwork(SavedNetwork(<<>>, 2021, 0), 2021, 1),
     saveModel(<<>>, NamedForest, "m1")}

RequestedNames == {NoModelName, "m1", CompetitionModelName(2014, "neural_network", 0)}

\* the history queries of a prediction all succeed, or the first one fails
ServeFailCases == {<<FALSE, FALSE, FALSE>>, <<TRUE, FALSE, FALSE>>}

InitServe ==
    /\ matches = MatchTable
    /\ now = 0
    /\ featureCache = <<>>
    /\ featResult = NoResult
    /\ files \in ServeDirs
    /\ forest = NoModel
    /\ trainOut = NoTrainOut
    /\ loaded = NotLoaded
    /\ predOut = NoPredOut
    /\ saving = NoSaves
    /\ loading = NotLoading
    /\ dbRows = 0
    /\ trainingHistory = <<>>
    /\ bestModels = <<>>
    /\ runs = NoRuns
    /\ listing = NoListing
    /\ started = 0
    /\ rfTrained = FALSE
    /\ predictionRecords = NoPredictions
    /\ matchPrediction = NoneIsPredicted
    /\ predictResult = NoPredictResult
    /\ called = NotCalled
    /\ api = NoApi

\* lines 624-628: the prediction is stored and the match updated, or the
\* error is rethrown
Answered(matchId, modelName, r) ==
    /\ featureCache' = r.cache
    /\ predictResult' = [status |-> r.status, error |-> r.error, matchId |-> matchId,
                         requested |-> modelName, modelName |-> r.modelName,
                         features |-> r.features, prediction |-> r.prediction]
    /\ IF r.status = "ok"
       THEN /\ predictionRecords' = storePrediction(predictionRecords, matchId,
                                        r.modelName, r.prediction, now)
            /\ matchPrediction' = updateMatchPrediction(matchPrediction, matchId,
                                        r.prediction, now)
       ELSE UNCHANGED <<predictionRecords, matchPrediction>>
    /\ UNCHANGED <<apiVars, callVars, trainVars, storeVars, matches, now, featResult, mlVars>>

PredictMatch(matchId, modelName, fails) ==
    Answered(matchId, modelName,
             predictMatch(featureCache, matches, files, now, matchId, modelName, fails))

NextServe ==
    \/ \E matchId \in MatchIds \cup {UnknownMatchId}, modelName \in RequestedNames,
          fails \in ServeFailCases : PredictMatch(matchId, modelName, fails)
    \/ \E name \in FileNames : DeleteModel(name)
    \/ \E id \in MatchIds, score \in FinalScores : DataArrives(id, score)
    \/ Tick

SpecServe == InitServe /\ [][NextServe]_vars

(***************************************************************************)
(* Claims checked under SpecServe.                                         *)
(***************************************************************************)
\* the call answered by this step was for a scheduled match, and the
\* directory held no model for its competition (or none of the name asked)
NoModelFor(matchId, modelName) ==
    /\ matchId \in DOMAIN matches
    /\ matches[matchId].status = "SCHEDULED"
    /\ IF modelName = NoModelName
       THEN \A n \in CompetitionModelNames(matches[matchId].competitionId) :
                FileOf(n) \notin DOMAIN files
       ELSE FileOf(modelName) \notin DOMAIN files

\* C12: predicting a scheduled match when no model exists for its
\* competition, or when the model named does not exist, fails with
\* ModelNotFound, and then no Prediction row is created or updated and the
\* prediction columns of the match stay as they were.
C12_ModelNotFound ==
    [][(predictResult' # predictResult
        /\ NoModelFor(predictResult'.matchId, predictResult'.requested))
            => /\ predictResult'.status = "error"
               /\ predictResult'.error = ModelNotFound
               /\ predictionRecords' = predictionRecords
               /\ matchPrediction' = matchPrediction]_vars

\* match 3 was predicted with no name given while only another competition
\* had a model: ModelNotFound, and nothing stored
C12_Witness ==
    /\ predictResult.error = ModelNotFound
    /\ predictResult.matchId = 3
    /\ predictResult.requested = NoModelName
    /\ listModels(files) # {}
    /\ predictionRecords = NoPredictions
    /\ matchPrediction = NoneIsPredicted

\* the number a normalized vector holds under a key, as a fraction
NormalizedAt(features, key) ==
    IF RangeOf(key) # "none" \/ key \in QuotientKeys THEN features[key]
    ELSE Frac(features[key], 1)

\* x lies in [0,1], or in [-1,1] under the key of a difference
InNormalRange(key, x) ==
    /\ ~IsNaN(x)
    /\ FracLeq(x, Frac(1, 1))
    /\ FracLeq(IF key \in GoalDifferenceKeys \cup MomentumKeys THEN Frac(0 - 1, 1)
               ELSE FracZero, x)

\* C17: every numeric feature of the vector normalizeFeatures returned
\* lies in [0,1] (or in the symmetric range, for a difference).
C17_NormalizedInRange ==
    \A key \in DOMAIN predictResult.features \ NonNumberKeys :
        InNormalRange(key, NormalizedAt(predictResult.features, key))

(***************************************************************************)
(* Specification SpecFold: the loop of crossValidate (lines 153-154) asks  *)
(* getCVFold for the folds 0 .. cvFolds - 1 of the training rows.          *)
(***************************************************************************)
MaxFoldSamples == 8

MaxFolds == 4

FoldCalls ==
    {[op |-> "getCVFold", data |-> Shuffled(getTrainingData(n), shuffle), totalFolds |-> k,
      folds |-> <<>>] : n \in 0 .. MaxFoldSamples, k \in 1 .. MaxFolds, shuffle \in Shuffles}

InitFold ==
    /\ matches = MatchTable
    /\ now = 0
    /\ featureCache = <<>>
    /\ featResult = NoResult
    /\ files = <<>>
    /\ forest = NoModel
    /\ trainOut = NoTrainOut
    /\ loaded = NotLoaded
    /\ predOut = NoPredOut
    /\ saving = NoSaves
    /\ loading = NotLoading
    /\ dbRows = 0
    /\ trainingHistory = <<>>
    /\ bestModels = <<>>
    /\ runs = NoRuns
    /\ listing = NoListing
    /\ started = 0
    /\ rfTrained = FALSE
    /\ predictionRecords = NoPredictions
    /\ matchPrediction = NoneIsPredicted
    /\ predictResult = NoPredictResult
    /\ called \in FoldCalls
    /\ api = NoApi

\* const { cvTrainData, cvValData } = this.getCVFold(trainData, fold, cvFolds)
GetCVFold ==
    /\ called.op = "getCVFold"
    /\ Len(called.folds) < called.totalFolds
    /\ called' = [called EXCEPT !.folds =
                     Append(@, getCVFold(called.data, Len(@), called.totalFolds))]
    /\ UNCHANGED <<apiVars, predictVars, trainVars, storeVars, now, featVars, mlVars>>

NextFold == GetCVFold

SpecFold == InitFold /\ [][NextFold]_vars

\* the validation sets of the folds, one after the other
RECURSIVE Validated(_)
Validated(folds) ==
    IF folds = <<>> THEN <<>>
    ELSE Validated(SubSeq(folds, 1, Len(folds) - 1)) \o folds[Len(folds)].cvValData

\* the fold is data[a .. b) and its training set is the rest, in order
IsFoldOf(fold, data) ==
    \E a \in 0 .. Len(data), b \in 0 .. Len(data) :
        /\ a <= b
        /\ fold.cvValData = Slice(data, a, b)
        /\ fold.cvTrainData = Slice(data, 0, a) \o Slice(data, b, Len(data))

\* C14: the validation sets getCVFold returns for the folds 0 .. k-1 of n
\* samples are contiguous and pairwise disjoint, together they hold every
\* sample exactly once, and the training set of a fold is exactly the
\* samples outside it.
C14_FoldsPartition ==
    called.op = "getCVFold" =>
        /\ \A f \in DOMAIN called.folds : IsFoldOf(called.folds[f], called.data)
        /\ \A f \in DOMAIN called.folds : \A g \in DOMAIN called.folds :
              f # g => Range(called.folds[f].cvValData) \cap Range(called.folds[g].cvValData) = {}
        /\ Len(called.folds) = called.totalFolds => Validated(called.folds) = called.data

\* all folds were taken of samples that do not divide evenly
C14_Witness ==
    /\ called.op = "getCVFold"
    /\ called.totalFolds > 1
    /\ Len(called.folds) = called.totalFolds
    /\ Len(called.data) > called.totalFolds
    /\ Len(called.data) % called.totalFolds # 0

(***************************************************************************)
(* Specification SpecTree: trainDecisionTree calls buildTree on the        *)
(* training samples, and buildTree calls itself on the two sides of every  *)
(* split.  One step is one invocation of buildTree.                        *)
(***************************************************************************)
\* a sample whose second feature is missing
Partial(a, winner) == [Item(a, 0, winner) EXCEPT !.x = ("f1" :> Frac(a, 1))]

TreeSamples ==
    TrainingSets \cup
    {<<Item(0, 0, "HOME_TEAM"), Item(0, 1, "AWAY_TEAM"), Partial(0, "DRAW")>>,
     <<Item(0, 0, "HOME_TEAM"), Partial(1, "DRAW"), Item(1, 1, "AWAY_TEAM"),
       Item(0, 1, "AWAY_TEAM")>>}

TreeOptions ==
    [maxDepth : 1 .. MaxTreeDepth, minSamplesSplit : {2, 3}, minSamplesLeaf : {1, 2}]

\* no invocation has returned yet
NoNode == [type |-> "none"]

\* the arguments of one invocation
Invocation(features, labels, depth) ==
    [features |-> features, labels |-> labels, depth |-> depth]

TreeCalls ==
    {[op |-> "buildTree", options |-> o, node |-> NoNode,
      pending |-> <<Invocation(FeaturesOf(d), [i \in DOMAIN d |-> d[i].winner], 0)>>] :
        d \in TreeSamples, o \in TreeOptions}

InitTree ==
    /\ matches = MatchTable
    /\ now = 0
    /\ featureCache = <<>>
    /\ featResult = NoResult
    /\ files = <<>>
    /\ forest = NoModel
    /\ trainOut = NoTrainOut
    /\ loaded = NotLoaded
    /\ predOut = NoPredOut
    /\ saving = NoSaves
    /\ loading = NotLoading
    /\ dbRows = 0
    /\ trainingHistory = <<>>
    /\ bestModels = <<>>
    /\ runs = NoRuns
    /\ listing = NoListing
    /\ started = 0
    /\ rfTrained = FALSE
    /\ predictionRecords = NoPredictions
    /\ matchPrediction = NoneIsPredicted
    /\ predictResult = NoPredictResult
    /\ called \in TreeCalls
    /\ api = NoApi

\* a depth test 'depth > maxDepth' in place of the one of line 107
NodeOfDeeper(inv, o, bestSplit, leftIdx, rightIdx) ==
    IF \/ inv.depth > o.maxDepth
       \/ Len(inv.features) < o.minSamplesSplit
       \/ bestSplit = NoSplit
       \/ Len(leftIdx) < o.minSamplesLeaf
       \/ Len(rightIdx) < o.minSamplesLeaf
    THEN [type |-> "leaf", of |-> inv]
    ELSE [type |-> "split", of |-> inv, bestSplit |-> bestSplit,
          left  |-> Invocation(PickSamples(inv.features, leftIdx),
                               PickLabels(inv.labels, leftIdx), inv.depth + 1),
          right |-> Invocation(PickSamples(inv.features, rightIdx),
                               PickLabels(inv.labels, rightIdx), inv.depth + 1)]

\* lines 104-126 of one invocation: a leaf, or the split and its two sides
NodeOf(inv, o, bestSplit, leftIdx, rightIdx) ==
    IF \/ inv.depth >= o.maxDepth
       \/ Len(inv.features) < o.minSamplesSplit
       \/ bestSplit = NoSplit
       \/ Len(leftIdx) < o.minSamplesLeaf
       \/ Len(rightIdx) < o.minSamplesLeaf
    THEN [type |-> "leaf", of |-> inv]
    ELSE [type |-> "split", of |-> inv, bestSplit |-> bestSplit,
          left  |-> Invocation(PickSamples(inv.features, leftIdx),
                               PickLabels(inv.labels, leftIdx), inv.depth + 1),
          right |-> Invocation(PickSamples(inv.features, rightIdx),
                               PickLabels(inv.labels, rightIdx), inv.depth + 1)]

InvocationNode(inv, o, bestSplit) ==
    NodeOf(inv, o, bestSplit,
           IF bestSplit = NoSplit THEN <<>> ELSE LeftOf(inv.features, bestSplit),
           IF bestSplit = NoSplit THEN <<>> ELSE RightOf(inv.features, bestSplit))

\* one invocation of buildTree runs up to its recursive calls
BuildTree ==
    /\ called.op = "buildTree"
    /\ called.pending # <<>>
    /\ LET inv  == Head(called.pending)
           node == InvocationNode(inv, called.options,
                                  findBestSplit(inv.features, inv.labels, FeatureOrder))
       IN  called' = [called EXCEPT
                        !.node = node,
                        !.pending = IF node.type = "split"
                                    THEN <<node.left, node.right>> \o Tail(@)
                                    ELSE Tail(@)]
    /\ UNCHANGED <<apiVars, predictVars, trainVars, storeVars, now, featVars, mlVars>>

NextTree == BuildTree

SpecTree == InitTree /\ [][NextTree]_vars

\* the elements of s at the indices in S, in their order
Sub(s, S) == LET In(i) == i \in S IN PickSamples(s, SelectSeq([i \in DOMAIN s |-> i], In))

\* the samples of an invocation whose split feature is <= the threshold
AtMost(inv, split) ==
    {i \in DOMAIN inv.features :
        /\ split.feature \in DOMAIN inv.features[i]
        /\ FracLeq(inv.features[i][split.feature], split.threshold)}

\* C15: at every split node buildTree makes, the samples routed left (feature
\* value <= threshold) and those routed right are disjoint and together are
\* exactly the samples of the node: the counts add up, and every sample
\* keeps its label.
C15_SplitPartitions ==
    (called.op = "buildTree" /\ called.node.type = "split") =>
        LET inv  == called.node.of
            left == AtMost(inv, called.node.bestSplit)
        IN  /\ Len(called.node.left.features) + Len(called.node.right.features)
                  = Len(inv.features)
            /\ called.node.left.features = Sub(inv.features, left)
            /\ called.node.left.labels = Sub(inv.labels, left)
            /\ called.node.right.features = Sub(inv.features, DOMAIN inv.features \ left)
            /\ called.node.right.labels = Sub(inv.labels, DOMAIN inv.features \ left)

\* a split that routes a sample without the split feature
C15_Witness ==
    /\ called.op = "buildTree"
    /\ called.node.type = "split"
    /\ \E i \in DOMAIN called.node.of.features :
          called.node.bestSplit.feature \notin DOMAIN called.node.of.features[i]

(***************************************************************************)
(* Specification SpecPrepare: prepareFeatures walks the matches it was     *)
(* given and generates the features of each from the Match table; a row    *)
(* that is gone from the table by then makes generateMatchFeatures throw.  *)
(***************************************************************************)
MaxPrepared == 3

\* what prepareFeatures reads of a match: the rows of the table, and one
\* that getTrainingData returned and the table no longer holds
PreparedRows ==
    {[id |-> id, winner |-> MatchTable[id].winner] : id \in MatchIds}
        \cup {[id |-> UnknownMatchId, winner |-> "AWAY_TEAM"]}

PreparedLists == UNION {[1 .. n -> PreparedRows] : n \in 0 .. MaxPrepared}

PrepareCalls ==
    {[op |-> "prepareFeatures", matches |-> l, outcomes |-> <<>>, features |-> <<>>,
      labels |-> <<>>] : l \in PreparedLists}

InitPrepare ==
    /\ matches = MatchTable
    /\ now = 0
    /\ featureCache = <<>>
    /\ featResult = NoResult
    /\ files = <<>>
    /\ forest = NoModel
    /\ trainOut = NoTrainOut
    /\ loaded = NotLoaded
    /\ predOut = NoPredOut
    /\ saving = NoSaves
    /\ loading = NotLoading
    /\ dbRows = 0
    /\ trainingHistory = <<>>
    /\ bestModels = <<>>
    /\ runs = NoRuns
    /\ listing = NoListing
    /\ started = 0
    /\ rfTrained = FALSE
    /\ predictionRecords = NoPredictions
    /\ matchPrediction = NoneIsPredicted
    /\ predictResult = NoPredictResult
    /\ called \in PrepareCalls
    /\ api = NoApi

\* lines 335-340: the entries that are numbers and not NaN
numericFeatures(normalizedFeatures) ==
    [key \in {k \in DOMAIN normalizedFeatures \ NonNumberKeys :
                ~IsNaN(NormalizedAt(normalizedFeatures, k))} |-> normalizedFeatures[key]]

\* match.winner || 'DRAW'
LabelOf(match) == IF match.winner = Null THEN "DRAW" ELSE match.winner

\* both pushes made before the features are generated
PushedEagerly(c, match, r) ==
    [c EXCEPT !.outcomes = Append(@, r.status),
              !.features = Append(@, IF r.status = "error" THEN NoFeatures
                                     ELSE numericFeatures(normalizeFeatures(r.features))),
              !.labels = IF r.status = "error" THEN @ ELSE Append(@, LabelOf(match))]

\* lines 331-348: one pass of the loop, r what generateMatchFeatures did
Pushed(c, match, r) ==
    IF r.status = "error" \/ DOMAIN numericFeatures(normalizeFeatures(r.features)) = {}
    THEN [c EXCEPT !.outcomes = Append(@, r.status)]
    ELSE [c EXCEPT !.outcomes = Append(@, r.status),
                   !.features = Append(@, numericFeatures(normalizeFeatures(r.features))),
                   !.labels = Append(@, LabelOf(match))]

PrepareNext(fails) ==
    /\ called.op = "prepareFeatures"
    /\ Len(called.outcomes) < Len(called.matches)
    /\ LET match == called.matches[Len(called.outcomes) + 1]
           r == generateMatchFeatures(featureCache, matches, now, match.id, fails)
       IN  /\ featureCache' = r.cache
           /\ called' = Pushed(called, match, r)
    /\ UNCHANGED <<apiVars, predictVars, trainVars, storeVars, matches, now, featResult, mlVars>>

NextPrepare == \E fails \in ServeFailCases : PrepareNext(fails)

SpecPrepare == InitPrepare /\ [][NextPrepare]_vars

\* the matches whose features were generated, in input order
Generated(c) ==
    LET Ok(i) == c.outcomes[i] = "ok"
    IN  PickSamples(c.matches, SelectSeq([i \in DOMAIN c.outcomes |-> i], Ok))

\* C16: a match whose feature generation fails is skipped and nothing is
\* thrown; features and labels have equal length, features[i] and labels[i]
\* come from the same match, and the matches whose features were generated
\* are all there, once each, in input order.
C16_OnlyBadSkipped ==
    called.op = "prepareFeatures" =>
        /\ Len(called.features) = Len(called.labels)
        /\ Len(called.features) = Len(Generated(called))
        /\ \A i \in DOMAIN called.features :
              /\ called.features[i]["matchId"] = Generated(called)[i].id
              /\ called.labels[i] = LabelOf(Generated(called)[i])

\* the loop is over, a match between two others was skipped
C16_Witness ==
    /\ called.op = "prepareFeatures"
    /\ Len(called.outcomes) = Len(called.matches)
    /\ Len(called.matches) = MaxPrepared
    /\ called.outcomes[1] = "ok"
    /\ called.outcomes[2] = "error"
    /\ called.outcomes[3] = "ok"

(***************************************************************************)
(* Further claims about feature generation, checked under SpecFeat.        *)
(***************************************************************************)
\* the feature names of a vector with history
SchemaKeys ==
    DOMAIN BasicFeatures(MatchTable[1]) \cup DOMAIN getDefaultTeamFeatures(TRUE)
        \cup DOMAIN getDefaultTeamFeatures(FALSE) \cup DOMAIN getDefaultH2HFeatures

\* the features agree with the defaults on every name the defaults have
DefaultsIn(features, defaults) == \A k \in DOMAIN defaults : features[k] = defaults[k]

\* what C18 asks of the vector r returned for match m of the table tbl
FixedWidth(tbl, m, r) ==
    /\ r.status = "ok"
    /\ DOMAIN r.features = SchemaKeys
    /\ TeamMatchesBefore(tbl, m.homeTeamId, m.utcDate, m.season) = {}
          => DefaultsIn(r.features, getDefaultTeamFeatures(TRUE))
    /\ TeamMatchesBefore(tbl, m.awayTeamId, m.utcDate, m.season) = {}
          => DefaultsIn(r.features, getDefaultTeamFeatures(FALSE))
    /\ H2HMatchesBefore(tbl, m.homeTeamId, m.awayTeamId, m.utcDate) = {}
          => DefaultsIn(r.features, getDefaultH2HFeatures)

\* C18: for every existing match generateMatchFeatures returns a vector
\* with the same feature names, whatever history the teams have and whether
\* or not a history query fails; the history features of a team (or of the
\* pairing) without earlier finished matches are all 0, and the call never
\* fails.
C18_FixedSchema ==
    [][(featResult' # featResult /\ featResult'.matchId \in DOMAIN matches)
          => FixedWidth(matches, matches[featResult'.matchId], featResult')]_vars

\* the features of one team in a returned vector
TeamPart(features, isHome) ==
    [k \in DOMAIN getDefaultTeamFeatures(isHome) |-> features[k]]

\* the entry under the key is younger than the timeout
Fresh(cache, key, clock) ==
    key \in DOMAIN cache /\ clock - cache[key].timestamp < cacheTimeout

\* the entry was served: it stays as it is and its features are returned
Served(cache, after, key, part) == after[key] = cache[key] /\ part = cache[key].features

\* the features were computed anew from the table and cached at this time
Recomputed(after, key, clock, ids, part) ==
    /\ after[key].timestamp = clock
    /\ after[key].sources = ids
    /\ part = after[key].features

\* the query failed: the defaults are returned and the entry stays
Defaulted(cache, after, key, part, isHome) ==
    after[key] = cache[key] /\ part = getDefaultTeamFeatures(isHome)

\* one team's part of a call at time clock that found cache and left after
EntryValid(cache, after, clock, tbl, m, teamId, isHome, part, orDefaulted) ==
    LET key == CacheKey(teamId, m.season, isHome)
    IN  IF Fresh(cache, key, clock) THEN Served(cache, after, key, part)
        ELSE key \in DOMAIN cache =>
                \/ Recomputed(after, key, clock,
                              TeamMatchesBefore(tbl, teamId, m.utcDate, m.season), part)
                \/ orDefaulted /\ Defaulted(cache, after, key, part, isHome)

CacheValid(m, orDefaulted) ==
    /\ EntryValid(featureCache, featureCache', now, matches, m, m.homeTeamId, TRUE,
                  TeamPart(featResult'.features, TRUE), orDefaulted)
    /\ EntryValid(featureCache, featureCache', now, matches, m, m.awayTeamId, FALSE,
                  TeamPart(featResult'.features, FALSE), orDefaulted)

\* a generateMatchFeatures call returned a vector
FeaturesReturned ==
    /\ featResult' # featResult \/ featureCache' # featureCache
    /\ featResult'.status = "ok"

\* C19 as stated: a cached team-feature entry is served unchanged while its
\* age is below the cache timeout, whatever arrived in the data store; from
\* the age of the timeout on it is never served, and the next request for
\* its key recomputes the features and replaces the entry with a fresh
\* timestamp.
C19_AlwaysReplaced ==
    [][FeaturesReturned => CacheValid(matches[featResult'.matchId], FALSE)]_vars

\* C19 amended: as above, but the next request replaces the expired entry
\* only when its history query succeeds; when the query fails it gets the
\* default features and the expired entry stays in the cache, unserved.
C19_CacheValidity ==
    [][FeaturesReturned => CacheValid(matches[featResult'.matchId], TRUE)]_vars

\* an entry that reached the timeout was replaced
C19_Witness ==
    \E key \in DOMAIN featureCache :
        featureCache[key].renewed /\ featureCache[key].timestamp = now

(***************************************************************************)
(* Specification SpecEval: evaluateModel is called twice with the same     *)
(* model and the same test matches while the clock advances; the Match     *)
(* table does not change.                                                  *)
(***************************************************************************)
MaxTestMatches == 2

NoFails == <<FALSE, FALSE, FALSE>>

\* the test matches: rows of the table, and one the table no longer holds
TestRows == Range(MatchTable) \cup {[MatchTable[1] EXCEPT !.id = UnknownMatchId]}

TestLists == UNION {[1 .. n -> TestRows] : n \in 0 .. MaxTestMatches}

\* a forest as trainRandomForest shapes it, and the network placeholder
EvalModels == {NamedForest, trainNeuralNetwork(0, 0)}

\* the cache of a new instance, and the cache after an earlier call
EvalCaches == {<<>>, generateMatchFeatures(<<>>, MatchTable, 0, 3, NoFails).cache}

EvalCalls ==
    {[op |-> "evaluateModel", model |-> model, testData |-> l, results |-> <<>>] :
        model \in EvalModels, l \in TestLists}

InitEval ==
    /\ matches = MatchTable
    /\ now = 0
    /\ featureCache \in EvalCaches
    /\ featResult = NoResult
    /\ files = <<>>
    /\ forest = NoModel
    /\ trainOut = NoTrainOut
    /\ loaded = NotLoaded
    /\ predOut = NoPredOut
    /\ saving = NoSaves
    /\ loading = NotLoading
    /\ dbRows = 0
    /\ trainingHistory = <<>>
    /\ bestModels = <<>>
    /\ runs = NoRuns
    /\ listing = NoListing
    /\ started = 0
    /\ rfTrained = FALSE
    /\ predictionRecords = NoPredictions
    /\ matchPrediction = NoneIsPredicted
    /\ predictResult = NoPredictResult
    /\ called \in EvalCalls
    /\ api = NoApi

\* prepareTrainingData lines 342-349: the pushes after generateMatchFeatures
WithGenerated(p, match, r) ==
    IF r.status = "error" THEN [p EXCEPT !.cache = r.cache]
    ELSE [features |-> Append(p.features, normalizeFeatures(r.features)),
          labels |-> Append(p.labels, match.winner), cache |-> r.cache]

\* lines 340-351: one pass of the loop
WithMatch(p, tbl, clock, match) ==
    IF match.status = "FINISHED" /\ match.winner # Null
    THEN WithGenerated(p, match, generateMatchFeatures(p.cache, tbl, clock, match.id, NoFails))
    ELSE p

\* prepareTrainingData(matches) after its first n matches, and the cache then
RECURSIVE PreparedUpTo(_, _, _, _, _)
PreparedUpTo(cache, tbl, clock, matchList, n) ==
    IF n = 0 THEN [features |-> <<>>, labels |-> <<>>, cache |-> cache]
    ELSE WithMatch(PreparedUpTo(cache, tbl, clock, matchList, n - 1), tbl, clock,
                   matchList[n])

\* lines 489-494: the prediction of one sample
EvalPrediction(model, features) ==
    IF model.type = "random_forest" THEN predictRandomForest(model, features)
    ELSE [NoPrediction EXCEPT !.status = "ok", !.prediction = "HOME_TEAM",
                              !.confidence = Frac(1, 2)]

Ratio(n, d) == IF d > 0 THEN Frac(n, d) ELSE FracZero

\* calculateMetrics, for one label
LabelMetrics(trueLabels, predictedLabels, label) ==
    LET truePositives == Cardinality({i \in DOMAIN trueLabels :
                            trueLabels[i] = label /\ predictedLabels[i] = label})
        falsePositives == Cardinality({i \in DOMAIN predictedLabels :
                            predictedLabels[i] = label /\ trueLabels[i] # label})
        falseNegatives == Cardinality({i \in DOMAIN trueLabels :
                            trueLabels[i] = label /\ predictedLabels[i] # label})
        precision == Ratio(truePositives, truePositives + falsePositives)
        recall == Ratio(truePositives, truePositives + falseNegatives)
    IN  [precision |-> precision, recall |-> recall,
         f1Score |-> IF FracLt(FracZero, FracAdd(precision, recall))
                     THEN Frac(2 * precision.num * recall.num * FracAdd(precision, recall).den,
                               precision.den * recall.den * FracAdd(precision, recall).num)
                     ELSE FracZero,
         truePositives |-> truePositives, falsePositives |-> falsePositives,
         falseNegatives |-> falseNegatives]

calculateMetrics(trueLabels, predictedLabels) ==
    [label \in Labels |-> LabelMetrics(trueLabels, predictedLabels, label)]

\* lines 483-515 once the predictions are made
MetricsOf(labels, predictions) ==
    IF \E i \in DOMAIN predictions : predictions[i].status = "error"
    THEN [status |-> "error", error |-> TypeError]
    ELSE [status |-> "ok", error |-> "",
          accuracy |-> IF Len(labels) = 0 THEN NaN
                       ELSE Frac(Cardinality({i \in DOMAIN labels :
                                    predictions[i].prediction = labels[i]}), Len(labels)),
          correct |-> Cardinality({i \in DOMAIN labels :
                                    predictions[i].prediction = labels[i]}),
          total |-> Len(labels),
          metrics |-> calculateMetrics(labels,
                        [i \in DOMAIN predictions |-> predictions[i].prediction])]

\* evaluateModel(model, testData), prepared what prepareTrainingData returned
evaluateModel(model, prepared) ==
    MetricsOf(prepared.labels,
              [i \in DOMAIN prepared.features |-> EvalPrediction(model, prepared.features[i])])

EvaluatedWith(prepared) ==
    /\ featureCache' = prepared.cache
    /\ called' = [called EXCEPT !.results = Append(@, evaluateModel(called.model, prepared))]
    /\ UNCHANGED <<apiVars, predictVars, trainVars, storeVars, matches, now, featResult, mlVars>>

EvaluateModel ==
    /\ called.op = "evaluateModel"
    /\ Len(called.results) < 2
    /\ EvaluatedWith(PreparedUpTo(featureCache, matches, now, called.testData,
                                         Len(called.testData)))

NextEval == EvaluateModel \/ Tick

SpecEval == InitEval /\ [][NextEval]_vars

\* C20: two calls of evaluateModel in a row with the same ensemble and the
\* same test matches, the match data unchanged, yield identical accuracy,
\* correct and total counts and per-class metrics, whatever the feature
\* cache held before the first call.
C20_EvaluateIdempotent ==
    (called.op = "evaluateModel" /\ Len(called.results) = 2)
        => called.results[1].status = "ok" /\ called.results[2] = called.results[1]

(***************************************************************************)
(* Specification SpecApi: one FootballDataAPI instance.  Callers start     *)
(* requests, each passes the request interceptor (checkRateLimit), is      *)
(* sent upstream and answered; the clock advances in between.              *)
(***************************************************************************)
\* FOOTBALL_API_RATE_LIMIT as configured for the runs studied (default 10)
rateLimit == 2

timeWindow == 60 * 1000

ApiTickMs == 30 * 1000

MaxApiTicks == 4

InitApi ==
    /\ matches = MatchTable
    /\ now = 0
    /\ featureCache = <<>>
    /\ featResult = NoResult
    /\ files = <<>>
    /\ forest = NoModel
    /\ trainOut = NoTrainOut
    /\ loaded = NotLoaded
    /\ predOut = NoPredOut
    /\ saving = NoSaves
    /\ loading = NotLoading
    /\ dbRows = 0
    /\ trainingHistory = <<>>
    /\ bestModels = <<>>
    /\ runs = NoRuns
    /\ listing = NoListing
    /\ started = 0
    /\ rfTrained = FALSE
    /\ predictionRecords = NoPredictions
    /\ matchPrediction = NoneIsPredicted
    /\ predictResult = NoPredictResult
    /\ called = NotCalled
    /\ api = NoApi

\* checkRateLimit lines 51-58: the counter is reset once the window passed
AfterReset(a, clock) ==
    IF clock - a.lastResetTime > timeWindow
    THEN [a EXCEPT !.requestCount = 0, !.lastResetTime = clock]
    ELSE a

\* the interceptor returned: the request goes upstream
Sent(a, q, clock) ==
    [a EXCEPT !.sent = Append(@, clock), !.requests[q] = [pc |-> "sent", wakeAt |-> 0]]

\* lines 61-64: at the limit, wait for the rest of the window
checkRateLimit(a, q, clock) ==
    IF a.requestCount >= rateLimit
    THEN [a EXCEPT !.requests[q] =
            [pc |-> "waiting", wakeAt |-> clock + timeWindow - (clock - a.lastResetTime)]]
    ELSE Sent(a, q, clock)

\* this.client.get(endpoint): the request interceptor runs
ClientGet(q) ==
    /\ api.requests[q].pc = "idle"
    /\ api' = checkRateLimit(AfterReset(api, now), q, now)
    /\ UNCHANGED <<callVars, predictVars, trainVars, storeVars, now, featVars, mlVars>>

\* lines 64-66: the timer of the wait fired
WaitOver(q) ==
    /\ api.requests[q].pc = "waiting"
    /\ now >= api.requests[q].wakeAt
    /\ api' = Sent([api EXCEPT !.requestCount = 0, !.lastResetTime = now], q, now)
    /\ UNCHANGED <<callVars, predictVars, trainVars, storeVars, now, featVars, mlVars>>

\* the response interceptor: a response is counted, an error is not
Response(q, ok) ==
    /\ api.requests[q].pc = "sent"
    /\ api' = [api EXCEPT !.requestCount = IF ok THEN @ + 1 ELSE @,
                          !.requests[q] = [pc |-> "done", wakeAt |-> 0]]
    /\ UNCHANGED <<callVars, predictVars, trainVars, storeVars, now, featVars, mlVars>>

ApiTick ==
    /\ now < MaxApiTicks * ApiTickMs
    /\ now' = now + ApiTickMs
    /\ UNCHANGED <<apiVars, callVars, predictVars, trainVars, storeVars, featVars, mlVars>>

NextApi ==
    \/ \E q \in ApiRequests : ClientGet(q)
    \/ \E q \in ApiRequests : WaitOver(q)
    \/ \E q \in ApiRequests, ok \in BOOLEAN : Response(q, ok)
    \/ ApiTick

SpecApi == InitApi /\ [][NextApi]_vars

\* the requests sent in the 60 seconds that start with the i-th one
SentInWindow(i) ==
    {j \in DOMAIN api.sent :
        api.sent[i] <= api.sent[j] /\ api.sent[j] < api.sent[i] + timeWindow}

\* C21: at most rateLimit upstream requests are sent within any one
\* 60-second window, also when several requests are started concurrently;
\* a request over the limit waits for the window to elapse.
C21_RateLimited ==
    \A i \in DOMAIN api.sent : Cardinality(SentInWindow(i)) <= rateLimit

(***************************************************************************)
(* buildTree's stop conditions, read off the node each invocation made.    *)
(***************************************************************************)
\* how many samples of an invocation a split sends left, and how many right
LeftCount(inv, split) == Cardinality(AtMost(inv, split))

RightCount(inv, split) == Len(inv.features) - LeftCount(inv, split)

\* one of the four stop conditions holds at an invocation
Stopped(inv, o, best) ==
    \/ inv.depth >= o.maxDepth
    \/ Len(inv.features) < o.minSamplesSplit
    \/ Candidates(inv.features, FeatureOrder) = <<>>
    \/ /\ best # NoSplit
       /\ \/ LeftCount(inv, best) < o.minSamplesLeaf
          \/ RightCount(inv, best) < o.minSamplesLeaf

ValuesOf(inv, name) ==
    {inv.features[i][name] : i \in {j \in DOMAIN inv.features : name \in DOMAIN inv.features[j]}}

\* the midpoints of two values of a feature with no value between them
MidpointsOf(inv, name) ==
    {FracMul(FracAdd(a, b), Frac(1, 2)) : <<a, b>> \in
        {p \in ValuesOf(inv, name) \X ValuesOf(inv, name) :
            /\ FracLt(p[1], p[2])
            /\ ~\E c \in ValuesOf(inv, name) : FracLt(p[1], c) /\ FracLt(c, p[2])}}

\* every (feature, threshold) there is to evaluate
AllSplits(inv) ==
    {[feature |-> FeatureOrder[k], threshold |-> t] :
        <<k, t>> \in {p \in (DOMAIN FeatureOrder) \X
                        UNION {MidpointsOf(inv, FeatureOrder[j]) : j \in DOMAIN FeatureOrder} :
                      p[2] \in MidpointsOf(inv, FeatureOrder[p[1]])}}

\* the Gini impurity 1 - sum of squared class frequencies of the samples in S
NodeGini(inv, S) ==
    IF S = {} THEN FracZero
    ELSE Frac(Cardinality(S) * Cardinality(S)
                - SumSeq([k \in 1 .. 3 |->
                    LET label == <<"HOME_TEAM", "AWAY_TEAM", "DRAW">>[k]
                        count == Cardinality({i \in S : inv.labels[i] = label})
                    IN  count * count]),
              Cardinality(S) * Cardinality(S))

\* the sample-weighted impurity of the two sides of a split
WeightedGini(inv, split) ==
    LET left  == AtMost(inv, split)
        right == DOMAIN inv.features \ left
        n     == Len(inv.features)
    IN  FracAdd(FracMul(Frac(Cardinality(left), n), NodeGini(inv, left)),
                FracMul(Frac(Cardinality(right), n), NodeGini(inv, right)))

\* a split comes before another in feature/threshold enumeration order
FeatureIndex(name) == CHOOSE k \in DOMAIN FeatureOrder : FeatureOrder[k] = name

ComesBefore(a, b) ==
    \/ FeatureIndex(a.feature) < FeatureIndex(b.feature)
    \/ a.feature = b.feature /\ FracLt(a.threshold, b.threshold)

\* findBestSplit's answer for the invocation the last node was made of
BestSplitOfNode == findBestSplit(called.node.of.features, called.node.of.labels, FeatureOrder)

MaxLeafLabels == 4

LeafCalls ==
    {[op |-> "createLeafNode", labels |-> labels, node |-> NoNode] :
        labels \in UNION {[1 .. n -> Labels] : n \in 1 .. MaxLeafLabels}}

InitLeaf ==
    /\ matches = MatchTable
    /\ now = 0
    /\ featureCache = <<>>
    /\ featResult = NoResult
    /\ files = <<>>
    /\ forest = NoModel
    /\ trainOut = NoTrainOut
    /\ loaded = NotLoaded
    /\ predOut = NoPredOut
    /\ saving = NoSaves
    /\ loading = NotLoading
    /\ dbRows = 0
    /\ trainingHistory = <<>>
    /\ bestModels = <<>>
    /\ runs = NoRuns
    /\ listing = NoListing
    /\ started = 0
    /\ rfTrained = FALSE
    /\ predictionRecords = NoPredictions
    /\ matchPrediction = NoneIsPredicted
    /\ predictResult = NoPredictResult
    /\ called \in LeafCalls
    /\ api = NoApi

CreateLeafNode ==
    /\ called.op = "createLeafNode"
    /\ called.node = NoNode
    /\ called' = [called EXCEPT !.node = createLeafNode(called.labels)]
    /\ UNCHANGED <<apiVars, predictVars, trainVars, storeVars, now, featVars, mlVars>>

NextLeaf == CreateLeafNode

SpecLeaf == InitLeaf /\ [][NextLeaf]_vars

\* how often a label occurs in a list, and where it occurs first
Occurrences(labels, label) == Cardinality({i \in DOMAIN labels : labels[i] = label})

FirstAt(labels, label) == CHOOSE i \in DOMAIN labels :
    labels[i] = label /\ \A j \in 1 .. (i - 1) : labels[j] # label

\* the labels of a list that no other label outnumbers
MostFrequent(labels) ==
    {l \in Range(labels) :
        \A k \in Range(labels) : Occurrences(labels, k) <= Occurrences(labels, l)}

\* the probabilities of a leaf are the frequencies of the labels of a list
IsFrequencies(probabilities, labels) ==
    /\ {probabilities[i].label : i \in DOMAIN probabilities} = Range(labels)
    /\ \A i \in DOMAIN probabilities :
          /\ probabilities[i].p
                = Frac(Occurrences(labels, probabilities[i].label), Len(labels))
          /\ \A j \in DOMAIN probabilities :
                probabilities[i].label = probabilities[j].label => i = j

\* C24: for a non-empty label list createLeafNode returns, per class, the
\* frequency count/total of the class in the list, and as majority class a
\* label of highest frequency; of several labels sharing the highest
\* frequency it returns the one encountered first in the list.
C24_FirstMajority ==
    (called.op = "createLeafNode" /\ called.node # NoNode) =>
        /\ called.node.type = "leaf"
        /\ IsFrequencies(called.node.probabilities, called.labels)
        /\ called.node.prediction \in MostFrequent(called.labels)
        /\ \A l \in MostFrequent(called.labels) :
              FirstAt(called.labels, called.node.prediction) <= FirstAt(called.labels, l)

(***************************************************************************)
(* Specification SpecVote: predictRandomForest applied to a forest as      *)
(* trainRandomForest builds it and to a feature vector.                    *)
(***************************************************************************)
VoteCalls ==
    {[op |-> "predictRandomForest", samples |-> d, options |-> o,
      model |-> EnsembleOf(d, o), features |-> x,
      out |-> NoPrediction] : d \in TrainingSets, o \in OptionSets, x \in Vectors}

InitVote ==
    /\ matches = MatchTable
    /\ now = 0
    /\ featureCache = <<>>
    /\ featResult = NoResult
    /\ files = <<>>
    /\ forest = NoModel
    /\ trainOut = NoTrainOut
    /\ loaded = NotLoaded
    /\ predOut = NoPredOut
    /\ saving = NoSaves
    /\ loading = NotLoading
    /\ dbRows = 0
    /\ trainingHistory = <<>>
    /\ bestModels = <<>>
    /\ runs = NoRuns
    /\ listing = NoListing
    /\ started = 0
    /\ rfTrained = FALSE
    /\ predictionRecords = NoPredictions
    /\ matchPrediction = NoneIsPredicted
    /\ predictResult = NoPredictResult
    /\ called \in VoteCalls
    /\ api = NoApi

PredictVote ==
    /\ called.op = "predictRandomForest"
    /\ called.out = NoPrediction
    /\ called' = [called EXCEPT !.out = predictRandomForest(called.model, called.features)]
    /\ UNCHANGED <<apiVars, predictVars, trainVars, storeVars, now, featVars, mlVars>>

NextVote == PredictVote

SpecVote == InitVote /\ [][NextVote]_vars

\* the vote of every tree of a forest: the majority class of the leaf the
\* vector reaches in the tree's nodes
VotesOf(model, features) ==
    [i \in DOMAIN model.trees |-> predictTree(model.trees[i].nodes, features)]

\* C25: predictRandomForest gives every tree one vote, the majority class of
\* its leaf; the probability of a class is its votes over nEstimators; the
\* predicted class has the most votes, and of several classes with the most
\* votes it is the one whose vote came first in tree order.
C25_FirstMostVoted ==
    (called.op = "predictRandomForest" /\ called.out # NoPrediction) =>
        LET votes == VotesOf(called.model, called.features)
        IN  /\ called.out.status = "ok"
            /\ Len(votes) = called.model.nEstimators
            /\ IsFrequencies(called.out.probabilities, votes)
            /\ called.out.prediction \in MostFrequent(votes)
            /\ \A l \in MostFrequent(votes) :
                  FirstAt(votes, called.out.prediction) <= FirstAt(votes, l)

(***************************************************************************)
(* Specification SpecCV: trainModels splits the training data and          *)
(* trainRandomForestWithCV runs its loop, one (fold, hyperparameters) pass *)
(* at a step, and then the final evaluation on the test set.               *)
(***************************************************************************)
TestSizes == {Frac(1, 10), Frac(1, 5), Frac(3, 10), Frac(1, 2)}

CVFoldCounts == {3, 5}

CVCalls ==
    {[op |-> "trainRandomForestWithCV", data |-> getTrainingData(n), testSize |-> t,
      cvFolds |-> k, hyperparameters |-> RandomForestHyperparameters(tuning),
      split |-> FALSE, trainData |-> <<>>, testData |-> <<>>, order |-> <<>>,
      passes |-> <<>>, cv |-> NoCV, scored |-> 0, done |-> FALSE] :
        n \in DataSizes, t \in TestSizes, k \in CVFoldCounts, tuning \in BOOLEAN}

InitCV ==
    /\ matches = MatchTable
    /\ now = 0
    /\ featureCache = <<>>
    /\ featResult = NoResult
    /\ files = <<>>
    /\ forest = NoModel
    /\ trainOut = NoTrainOut
    /\ loaded = NotLoaded
    /\ predOut = NoPredOut
    /\ saving = NoSaves
    /\ loading = NotLoading
    /\ dbRows = 0
    /\ trainingHistory = <<>>
    /\ bestModels = <<>>
    /\ runs = NoRuns
    /\ listing = NoListing
    /\ started = 0
    /\ rfTrained = FALSE
    /\ predictionRecords = NoPredictions
    /\ matchPrediction = NoneIsPredicted
    /\ predictResult = NoPredictResult
    /\ called \in CVCalls
    /\ api = NoApi

IdsOf(matchList) == {matchList[i].id : i \in DOMAIN matchList}

\* trainModels, line 46
SplitData(shuffle) ==
    /\ called.op = "trainRandomForestWithCV"
    /\ ~called.split
    /\ LET s == splitData(called.data, called.testSize, shuffle)
       IN  called' = [called EXCEPT !.split = TRUE,
                                    !.trainData = s.trainData,
                                    !.testData = s.testData,
                                    !.order = CVOrder(called.cvFolds, called.hyperparameters)]
    /\ UNCHANGED <<apiVars, predictVars, trainVars, storeVars, now, featVars, mlVars>>

\* what a pass was given and how it ended
PassOf(at, fold, r) ==
    [fold |-> at.fold + 1, params |-> at.params, kind |-> r.kind,
     trained |-> IdsOf(fold.cvTrainData), validated |-> IdsOf(fold.cvValData)]

\* lines 151-194: one pass of the inner loop
CrossValidationPass ==
    /\ called.op = "trainRandomForestWithCV"
    /\ called.split
    /\ called.order # <<>>
    /\ LET at   == Head(called.order)
           fold == getCVFold(called.trainData, at.fold, called.cvFolds)
           r    == CVPass(fold, at.params, at.fold, now)
       IN  called' = [called EXCEPT !.order = Tail(@),
                                    !.passes = Append(@, PassOf(at, fold, r)),
                                    !.cv = Recorded(@, r)]
    /\ UNCHANGED <<apiVars, predictVars, trainVars, storeVars, now, featVars, mlVars>>

\* lines 199-211: the best model, if there is one, is scored on the test set
FinalEvaluation ==
    /\ called.op = "trainRandomForestWithCV"
    /\ called.split
    /\ called.order = <<>>
    /\ ~called.done
    /\ called' = [called EXCEPT !.done = TRUE,
                                !.scored = IF called.cv.bestModel # NoModel THEN @ + 1 ELSE @]
    /\ UNCHANGED <<apiVars, predictVars, trainVars, storeVars, now, featVars, mlVars>>

NextCV ==
    \/ \E shuffle \in Shuffles : SplitData(shuffle)
    \/ CrossValidationPass
    \/ FinalEvaluation

SpecCV == InitCV /\ [][NextCV]_vars

\* the passes that went on to train: both sides of the fold had features
EvaluatedPasses == {i \in DOMAIN called.passes : called.passes[i].kind # "skipped"}

\* the score is the highest accuracy recorded, and the model is one trained
\* with the hyperparameters of a result of that accuracy
BestOfRecorded(cv) ==
    /\ \A i \in DOMAIN cv.cvResults : FracLeq(cv.cvResults[i].accuracy, cv.bestScore)
    /\ \E i \in DOMAIN cv.cvResults :
          /\ cv.cvResults[i].accuracy = cv.bestScore
          /\ cv.bestModel # NoModel
          /\ cv.bestModel.nEstimators = cv.cvResults[i].params.nEstimators
          /\ cv.bestModel.maxDepth = cv.cvResults[i].params.maxDepth

\* C26: once trainRandomForestWithCV has gone through all folds and
\* hyperparameter candidates, bestScore is the maximum held-out accuracy of
\* the recorded results and bestModel the ensemble trained for a combination
\* that reached it; if at least one combination was evaluated, there is a
\* best ensemble.
C26_BestIsMaximum ==
    (called.op = "trainRandomForestWithCV" /\ called.done) =>
        /\ called.cv.cvResults # <<>> => BestOfRecorded(called.cv)
        /\ EvaluatedPasses # {} => called.cv.bestModel # NoModel

\* the test set is apart from the training data and from every fold; it
\* is scored at most once, and only after the last pass
TestSetApart ==
    (called.op = "trainRandomForestWithCV" /\ called.split) =>
        /\ IdsOf(called.trainData) \cap IdsOf(called.testData) = {}
        /\ IdsOf(called.trainData) \cup IdsOf(called.testData) = IdsOf(called.data)
        /\ Len(called.trainData) + Len(called.testData) = Len(called.data)
        /\ Cardinality(IdsOf(called.data)) = Len(called.data)
        /\ Len(called.trainData) * called.testSize.den
              <= Len(called.data) * (called.testSize.den - called.testSize.num)
        /\ (Len(called.trainData) + 1) * called.testSize.den
              > Len(called.data) * (called.testSize.den - called.testSize.num)
        /\ \A i \in DOMAIN called.passes :
              /\ called.passes[i].trained \cap IdsOf(called.testData) = {}
              /\ called.passes[i].validated \cap IdsOf(called.testData) = {}
        /\ called.scored <= 1
        /\ called.scored = 1 => called.order = <<>>

\* C27: splitData returns trainData and testData that are disjoint and
\* together hold each of the n input matches exactly once, with
\* |trainData| = floor(n * (1 - testSize)); no match of testData is in a
\* training or validation fold of the cross-validation; and once all folds
\* and candidates have been evaluated the best ensemble has been scored
\* against testData exactly once.
C27_TestSetHeldOut ==
    /\ TestSetApart
    /\ (called.op = "trainRandomForestWithCV" /\ called.done) => called.scored = 1

(***************************************************************************)
(* Specification SpecAssess: POST /ai/evaluate/:modelName loads the model, *)
(* reads the test matches, and answers with the evaluation or a rejection. *)
(***************************************************************************)
MinEvaluationMatches == 50

MaxUsable == 4

\* what keeps prepareTrainingData from using a match: no winner recorded,
\* or features that cannot be generated
Unusable == {"no winner", "no features"}

\* n matches as getTrainingData returns them, only the first `usable` of
\* which can be used
TestDataOf(n, usable, why) ==
    [i \in 1 .. n |->
        IF i <= usable THEN TrainingRow(i)
        ELSE IF why = "no winner" THEN [TrainingRow(i) EXCEPT !.winner = Null]
        ELSE [TrainingRow(i) EXCEPT !.fails = TRUE]]

InitAssess ==
    /\ matches = MatchTable
    /\ now = 0
    /\ featureCache = <<>>
    /\ featResult = NoResult
    /\ files = <<>>
    /\ forest = NoModel
    /\ trainOut = NoTrainOut
    /\ loaded = NotLoaded
    /\ predOut = NoPredOut
    /\ saving = NoSaves
    /\ loading = NotLoading
    /\ dbRows = 0
    /\ trainingHistory = <<>>
    /\ bestModels = <<>>
    /\ runs = NoRuns
    /\ listing = NoListing
    /\ started = 0
    /\ rfTrained = FALSE
    /\ predictionRecords = NoPredictions
    /\ matchPrediction = NoneIsPredicted
    /\ predictResult = NoPredictResult
    /\ called = [op |-> "postEvaluate", pc |-> "load", model |-> NoModel, testData |-> <<>>, response |-> NoResponse, evaluation |-> NoReturn]
    /\ api = NoApi

\* part_007, line 793: the model file is loaded
LoadForEvaluation(model) ==
    /\ called.op = "postEvaluate"
    /\ called.pc = "load"
    /\ called' = [called EXCEPT !.pc = "query", !.model = model]
    /\ UNCHANGED <<apiVars, predictVars, trainVars, storeVars, now, featVars, mlVars>>

\* lines 796-800
GetTestData(n, usable, why) ==
    /\ called.op = "postEvaluate"
    /\ called.pc = "query"
    /\ called' = [called EXCEPT !.pc = "evaluate", !.testData = TestDataOf(n, usable, why)]
    /\ UNCHANGED <<apiVars, predictVars, trainVars, storeVars, now, featVars, mlVars>>

\* lines 802-840: the answer of the route to an evaluation
EvaluationResponse(evaluation) ==
    IF evaluation.status = "error"
    THEN [status |-> 500, message |-> "Evaluation Failed"]
    ELSE [status |-> 200, message |-> "evaluated successfully"]

\* lines 802-840
Evaluate ==
    /\ called.op = "postEvaluate"
    /\ called.pc = "evaluate"
    /\ IF Len(called.testData) < MinEvaluationMatches
       THEN called' = [called EXCEPT !.pc = "responded",
                          !.response = [status |-> 400, message |-> "Insufficient Test Data"]]
       ELSE LET evaluation == evaluateModel(called.model, prepareTrainingData(called.testData))
            IN  called' = [called EXCEPT !.pc = "responded",
                              !.evaluation = evaluation,
                              !.response = EvaluationResponse(evaluation)]
    /\ UNCHANGED <<apiVars, predictVars, trainVars, storeVars, now, featVars, mlVars>>

NextAssess ==
    \/ \E model \in EvalModels : LoadForEvaluation(model)
    \/ \E n \in {MinEvaluationMatches - 1, MinEvaluationMatches, MinEvaluationMatches + 1},
          usable \in 0 .. MaxUsable, why \in Unusable : GetTestData(n, usable, why)
    \/ Evaluate

SpecAssess == InitAssess /\ [][NextAssess]_vars

\* the matches of a list that are finished, have a winner and features
UsableRows(matchList) ==
    {i \in DOMAIN matchList :
        /\ matchList[i].status = "FINISHED"
        /\ matchList[i].winner # Null
        /\ ~matchList[i].fails}

\* C28: an evaluation whose usable labelled samples are fewer than the
\* minimum (none at all included, once the bad samples are left out) is
\* rejected as insufficient data and returns no accuracy or metric report.
C28_TooFewRejected ==
    (called.op = "postEvaluate" /\ called.pc = "responded"
        /\ Cardinality(UsableRows(called.testData)) < MinEvaluationMatches) =>
        /\ called.response = [status |-> 400, message |-> "Insufficient Test Data"]
        /\ called.evaluation = NoReturn

\* seeds trainDecisionTree may be given
Seeds == {0, DefaultRandomState, DefaultRandomState + 1}

\* the tree trained on the samples of the call with a seed
SeededTree(seed) ==
    trainDecisionTree(FeaturesOf(called.samples),
                      [i \in DOMAIN called.samples |-> called.samples[i].winner],
                      [WithDefaults(called.options) EXCEPT !.randomState = seed],
                      FeatureOrder)

\* every seed gives the same tree, and the trees of the forest are that tree
TreesIdentical ==
    called.op = "predictRandomForest" =>
        /\ \A seed \in Seeds : SeededTree(seed) = SeededTree(DefaultRandomState)
        /\ Len(called.model.trees) = called.options.nEstimators
        /\ \A i \in DOMAIN called.model.trees :
              called.model.trees[i] = SeededTree(DefaultRandomState + i - 1)

\* C29: for fixed samples, labels and hyperparameters trainDecisionTree
\* returns the same tree whatever the randomState, so the nEstimators trees
\* of a forest are identical, and for every feature vector the vote of the
\* forest is unanimous: one class, with probability 1 and confidence 1.
C29_UnanimousVote ==
    /\ TreesIdentical
    /\ (called.op = "predictRandomForest" /\ called.out # NoPrediction) =>
          /\ called.out.status = "ok"
          /\ Len(called.out.probabilities) = 1
          /\ called.out.probabilities[1].p = Frac(1, 1)
          /\ called.out.probabilities[1].label = called.out.prediction
          /\ called.out.confidence = Frac(1, 1)

\* the names under which a model is stored in the directory: every file
\* but the training-history log
PersistedModels(dir) == {name \in FileNames \ {HistoryName} : FileOf(name) \in DOMAIN dir}

\* C30: whatever saveModel, deleteModel and trainModels did before, a call
\* of listModels returns one entry for each model that was saved and not
\* deleted since, and none for anything that is not a persisted model: in
\* particular none for the training-history log of saveTrainingHistory.
C30_ListsOnlyModels ==
    [][ListModels => (listing' = PersistedModels(files) /\ HistoryName \notin listing')]_vars

=============================================================================
